---------------------------- MODULE Spec2Model ----------------------------
(***************************************************************************)
(* A model of the string extraction / reconstruction, batching and retry   *)
(* pipeline of deepl-translate-github-action (src/src/utils.ts,            *)
(* src/src/main.ts).                                                       *)
(*                                                                         *)
(* JavaScript strings are sequences of one-character strings.  JSON values *)
(* are records [t, s, e]: t is the result of the code's type tests, s the  *)
(* characters of a string, e the entries <<[k |-> key, v |-> value], ...>> *)
(* of an object in Object.keys order (or the items of an array).           *)
(***************************************************************************)
EXTENDS Integers, Sequences, FiniteSets, TLC

(***************************************************************************)
(* Bounds of the model.                                                    *)
(***************************************************************************)
MaxKeyLen == 1
MaxEntries == 2
MaxInner == 1
MaxPathKeyLen == 2
MaxPathDepth == 2
MaxStrings == 3
MaxOtherRetries == 2
MaxOtherDelay == 2
MaxFaults == 2
MaxPieces == 4
MaxResults == 3
MaxReplaceStr == 2
MaxReplaceSearch == 2
MaxReplaceLen == 4

(***************************************************************************)
(* Characters and strings.                                                 *)
(***************************************************************************)
Dot == "."
Backslash == "\\"

KeyAlphabet == {"a", Dot, Backslash}

RECURSIVE SeqsOfLen(_, _)
SeqsOfLen(S, n) ==
  IF n = 0 THEN {<<>>}
  ELSE {<<c>> \o r : c \in S, r \in SeqsOfLen(S, n - 1)}

SeqsUpTo(S, n) == UNION {SeqsOfLen(S, m) : m \in 0..n}

\* the tail of s from position i (1-based) on
From(s, i) == SubSeq(s, i, Len(s))

\* s.startsWith(search) at position i
MatchesAt(s, search, i) ==
  /\ i + Len(search) - 1 <= Len(s)
  /\ SubSeq(s, i, i + Len(search) - 1) = search

\* str.indexOf(search): the 1-based position of the first occurrence, 0 when
\* there is none (JavaScript's -1); the empty search is found at the start.
IndexOf(str, search) ==
  LET hits == {i \in 1..(Len(str) + 1) : MatchesAt(str, search, i)}
  IN IF hits = {} THEN 0 ELSE CHOOSE i \in hits : \A j \in hits : i <= j

\* str.includes(search)
Includes(str, search) == IndexOf(str, search) # 0

\* str.replace(search, replacement) with a string pattern: the first
\* occurrence only.
ReplaceFirst(str, search, replacement) ==
  LET i == IndexOf(str, search)
  IN IF i = 0 THEN str
     ELSE SubSeq(str, 1, i - 1) \o replacement \o From(str, i + Len(search))

KeepOpen == <<"<", "k", "e", "e", "p", ">">>
KeepClose == <<"<", "/", "k", "e", "e", "p", ">">>

\* replaceAll: replace the first occurrence until none is left.  fuel bounds the
\* unfolding; the callers modelled here pass the empty replacement, which
\* shortens the string by Len(search) >= 1 each round.
RECURSIVE ReplaceAllFuel(_, _, _, _)
ReplaceAllFuel(str, search, replacement, fuel) ==
  IF IndexOf(str, search) = 0 \/ fuel = 0 THEN str
  ELSE ReplaceAllFuel(ReplaceFirst(str, search, replacement), search,
                      replacement, fuel - 1)

replaceAll(str, search, replacement) ==
  ReplaceAllFuel(str, search, replacement, Len(str) + 1)

\* an unmasking that removes the opening markers only
RemoveOpeningTagsOnly(str) ==
  IF ~Includes(str, KeepOpen) THEN str ELSE replaceAll(str, KeepOpen, <<>>)

removeKeepTagsFromString(str) ==
  IF ~Includes(str, KeepOpen) THEN str
  ELSE replaceAll(replaceAll(str, KeepOpen, <<>>), KeepClose, <<>>)

(***************************************************************************)
(* Dot-notation paths.                                                     *)
(***************************************************************************)
\* a flattener that forgets to escape the dots of a key
EscapeKeyNoEscape(key) == key

\* key.replace(/\./g, '\\.')
RECURSIVE EscapeKey(_)
EscapeKey(key) ==
  IF key = <<>> THEN <<>>
  ELSE (IF Head(key) = Dot THEN <<Backslash, Dot>> ELSE <<Head(key)>>)
       \o EscapeKey(Tail(key))

\* a flattener that forgets the prefix of a nested key
JoinPathNoPrefix(currentPrefix, escapedKey) == escapedKey

\* currentPrefix ? `${currentPrefix}.${escapedKey}` : escapedKey
JoinPath(currentPrefix, escapedKey) ==
  IF currentPrefix # <<>> THEN currentPrefix \o <<Dot>> \o escapedKey
  ELSE escapedKey

\* the regex /(?<!\\)\./ at position i: a dot whose preceding character, if
\* any, is not a backslash
IsSplitDot(key, i) ==
  /\ key[i] = Dot
  /\ (i = 1 \/ key[i - 1] # Backslash)

\* key.split(/(?<!\\)\./): the pieces between the matching dots
RECURSIVE SplitFrom(_, _, _)
SplitFrom(key, i, part) ==
  IF i > Len(key) THEN <<part>>
  ELSE IF IsSplitDot(key, i) THEN <<part>> \o SplitFrom(key, i + 1, <<>>)
  ELSE SplitFrom(key, i + 1, Append(part, key[i]))

SplitKey(key) == SplitFrom(key, 1, <<>>)

\* a rebuilder that forgets to unescape a segment
UnescapePartNoUnescape(part) == part

\* part.replace(/\\./g, '.'): in this regex the dot is the wildcard, so each
\* backslash together with the character after it becomes one '.'
RECURSIVE UnescapePart(_)
UnescapePart(part) ==
  IF part = <<>> THEN <<>>
  ELSE IF Head(part) = Backslash /\ Len(part) >= 2
       THEN <<Dot>> \o UnescapePart(From(part, 3))
       ELSE <<Head(part)>> \o UnescapePart(Tail(part))


\* the keys buildOutputJson reads out of an encoded path, one per part
DecodedSegments(key) ==
  [j \in 1..Len(SplitKey(key)) |-> UnescapePart(SplitKey(key)[j])]

(***************************************************************************)
(* JSON values.                                                            *)
(***************************************************************************)
StrV(chars) == [t |-> "string", s |-> chars, e |-> <<>>]
ObjV(entries) == [t |-> "object", s |-> <<>>, e |-> entries]
ArrV(items) == [t |-> "array", s |-> <<>>, e |-> items]
NumV == [t |-> "number", s |-> <<>>, e |-> <<>>]
BoolV == [t |-> "boolean", s |-> <<>>, e |-> <<>>]
NullV == [t |-> "null", s |-> <<>>, e |-> <<>>]
Undefined == [t |-> "undefined", s |-> <<>>, e |-> <<>>]
\* a method inherited from Object.prototype
FunctionV == [t |-> "function", s |-> <<>>, e |-> <<>>]
EmptyObject == ObjV(<<>>)

\* the key under which an own property hides Object.prototype.hasOwnProperty
HasOwnPropertyKey ==
  <<"h", "a", "s", "O", "w", "n", "P", "r", "o", "p", "e", "r", "t", "y">>

\* a key that names another method of Object.prototype
ValueOfKey == <<"v", "a", "l", "u", "e", "O", "f">>

\* names every plain object inherits (the ones the key bounds can produce)
InheritedNames == {HasOwnPropertyKey, ValueOfKey}

\* typeof value === 'string'
IsString(value) == value.t = "string"

\* typeof value === 'object' && value !== null && !Array.isArray(value)
IsPlainObject(value) == value.t = "object"

\* Object.keys(obj)
ObjectKeys(obj) == [i \in 1..Len(obj.e) |-> obj.e[i].k]

HasOwn(obj, key) == \E i \in 1..Len(obj.e) : obj.e[i].k = key

\* obj[key]: the own property, else the inherited one, else undefined
Get(obj, key) ==
  IF HasOwn(obj, key)
  THEN obj.e[CHOOSE i \in 1..Len(obj.e) : obj.e[i].k = key].v
  ELSE IF key \in InheritedNames THEN FunctionV
  ELSE Undefined

\* obj[key] = value: an existing property keeps its place
Put(obj, key, value) ==
  IF HasOwn(obj, key)
  THEN ObjV([i \in 1..Len(obj.e) |->
              IF obj.e[i].k = key THEN [k |-> key, v |-> value] ELSE obj.e[i]])
  ELSE ObjV(Append(obj.e, [k |-> key, v |-> value]))

\* !value for the values a property can hold here
IsFalsy(value) ==
  \/ value.t \in {"undefined", "null"}
  \/ value.t = "string" /\ value.s = <<>>

\* deep equality of two values, object key order ignored
RECURSIVE DeepEqual(_, _)
DeepEqual(a, b) ==
  /\ a.t = b.t
  /\ a.s = b.s
  /\ IF a.t = "object"
     THEN /\ {a.e[i].k : i \in 1..Len(a.e)} = {b.e[i].k : i \in 1..Len(b.e)}
          /\ \A i \in 1..Len(a.e) : DeepEqual(a.e[i].v, Get(b, a.e[i].k))
     ELSE /\ Len(a.e) = Len(b.e)
          /\ \A i \in 1..Len(a.e) : DeepEqual(a.e[i], b.e[i])

(***************************************************************************)
(* buildOutputJson.                                                        *)
(***************************************************************************)
\* the outcome of a function that threw
Threw == [t |-> "threw", s |-> <<>>, e |-> <<>>]

\* translatedTexts[i] (0-based i): an element of an array, undefined past its
\* end and for anything that is not an array
ElementAt(translatedTexts, i) ==
  IF translatedTexts.t = "array" /\ i + 1 <= Len(translatedTexts.e)
  THEN translatedTexts.e[i + 1]
  ELSE Undefined

\* the inner loop over keyParts from part j on, starting at currentLevel; the
\* result is currentLevel after the assignments, or Threw.  value.includes
\* throws on undefined; assigning a property to a primitive string throws in
\* a module, which is strict code; a property put on an inherited method is
\* not part of the result.
RECURSIVE AssignAt(_, _, _, _)
AssignAt(currentLevel, keyParts, j, value) ==
  LET part == UnescapePart(keyParts[j])
  IN IF j = Len(keyParts)
     THEN IF ~IsString(value) THEN Threw
          ELSE IF currentLevel.t = "function" THEN currentLevel
          ELSE IF currentLevel.t # "object" THEN Threw
          ELSE Put(currentLevel, part, StrV(removeKeepTagsFromString(value.s)))
     ELSE IF currentLevel.t = "function" THEN
            AssignAt(FunctionV, keyParts, j + 1, value)
     ELSE IF currentLevel.t # "object" THEN Threw
     ELSE LET old == Get(currentLevel, part)
              next == IF IsFalsy(old) THEN EmptyObject ELSE old
              sub == AssignAt(next, keyParts, j + 1, value)
          IN IF sub = Threw THEN Threw
             ELSE IF HasOwn(currentLevel, part) \/ IsFalsy(old)
                  THEN Put(currentLevel, part, sub)
                  ELSE currentLevel

\* the outer loop from index i (1-based) on
RECURSIVE BuildFrom(_, _, _, _)
BuildFrom(result, translatedTexts, jsonKeys, i) ==
  IF i > Len(jsonKeys) THEN result
  ELSE LET next == AssignAt(result, SplitKey(jsonKeys[i]), 1,
                            ElementAt(translatedTexts, i - 1))
       IN IF next = Threw THEN Threw
          ELSE BuildFrom(next, translatedTexts, jsonKeys, i + 1)

buildOutputJson(translatedTexts, jsonKeys) ==
  BuildFrom(EmptyObject, translatedTexts, jsonKeys, 1)

\* a string[] as a value
StringArray(strs) == ArrV([i \in 1..Len(strs) |-> StrV(strs[i])])


(***************************************************************************)
(* Masking and sizes.                                                      *)
(***************************************************************************)
\* the position of the first c in value at or after i, 0 when there is none
FirstAt(value, c, i) ==
  LET hits == {j \in i..Len(value) : value[j] = c}
  IN IF hits = {} THEN 0 ELSE CHOOSE j \in hits : \A h \in hits : j <= h

\* the position of the first "}}" in value at or after i, 0 when there is none
FirstCloseCloseAt(value, i) ==
  LET hits == {j \in i..(Len(value) - 1) : value[j] = "}" /\ value[j + 1] = "}"}
  IN IF hits = {} THEN 0 ELSE CHOOSE j \in hits : \A h \in hits : j <= h

\* the line terminator: the dot of a regex does not match it
LineBreak == "\n"

\* no line terminator in value from position a to position b
NoLineBreak(value, a, b) == \A j \in a..b : value[j] # LineBreak

\* the match of /{.*?}/ alone
MatchEndSingleBrace(value, i) ==
  IF value[i] # "{" THEN 0
  ELSE IF /\ FirstAt(value, "}", i + 1) # 0
          /\ NoLineBreak(value, i + 1, FirstAt(value, "}", i + 1))
       THEN FirstAt(value, "}", i + 1)
       ELSE 0

\* the last position of the match of /({{.*?}}|{.*?})/ that starts at i, 0
\* when none starts there: {{ up to the first }} after it, else { up to the
\* first } after it, with no line terminator in between
MatchEnd(value, i) ==
  IF value[i] # "{" THEN 0
  ELSE IF /\ i + 1 <= Len(value)
          /\ value[i + 1] = "{"
          /\ FirstCloseCloseAt(value, i + 2) # 0
          /\ NoLineBreak(value, i + 2, FirstCloseCloseAt(value, i + 2))
       THEN FirstCloseCloseAt(value, i + 2) + 1
       ELSE IF /\ FirstAt(value, "}", i + 1) # 0
               /\ NoLineBreak(value, i + 1, FirstAt(value, "}", i + 1))
            THEN FirstAt(value, "}", i + 1)
            ELSE 0

\* value.replace(termRegex, (match) => `<keep>${match}</keep>`) from i on
RECURSIVE MaskFrom(_, _)
MaskFrom(value, i) ==
  IF i > Len(value) THEN <<>>
  ELSE IF MatchEnd(value, i) # 0
       THEN KeepOpen \o SubSeq(value, i, MatchEnd(value, i)) \o KeepClose
            \o MaskFrom(value, MatchEnd(value, i) + 1)
       ELSE <<value[i]>> \o MaskFrom(value, i + 1)

replaceParameterStringsInJSONValueWithKeepTags(value) == MaskFrom(value, 1)

maxRequestSizeBytes == 128 * 1024
estimatedOverheadBytes == 2048
maxTextSizeBytes == maxRequestSizeBytes - estimatedOverheadBytes

\* Long texts: one element of a string may stand for a run of the letter x.
\* The three runs are 17 bytes short of the ceiling, as long as the ceiling,
\* and one byte longer.
NearRun == "x * (maxTextSizeBytes - 17)"
FullRun == "x * maxTextSizeBytes"
OverRun == "x * (maxTextSizeBytes + 1)"

\* the UTF-8 length of one element of a string
CharBytes(c) ==
  IF c = NearRun THEN maxTextSizeBytes - 17
  ELSE IF c = FullRun THEN maxTextSizeBytes
  ELSE IF c = OverRun THEN maxTextSizeBytes + 1
  ELSE IF c = "é" THEN 2
  ELSE 1

\* new TextEncoder().encode(text).length
RECURSIVE TextSizeBytes(_)
TextSizeBytes(text) ==
  IF text = <<>> THEN 0 ELSE CharBytes(Head(text)) + TextSizeBytes(Tail(text))

(***************************************************************************)
(* translateStrings.  A run is [currentBatch, currentBatchSize, promises]: *)
(* promises holds, in the order of the calls, the batch each call of       *)
(* translateWithExponentialBackoffRetry was given.                         *)
(***************************************************************************)
\* textsToBeTranslated = sourceStrings.map(...)
TextsToBeTranslated(sourceStrings) ==
  [i \in 1..Len(sourceStrings) |->
     replaceParameterStringsInJSONValueWithKeepTags(sourceStrings[i])]

StartBatching == [currentBatch |-> <<>>, currentBatchSize |-> 0, promises |-> <<>>]

\* a test that looks at the new text only and forgets what the batch holds
ExceedsIgnoringBatch(currentBatchSize, textSizeBytes) ==
  textSizeBytes > maxTextSizeBytes

\* a batcher that forgets the reserve for the request overhead
ExceedsRequestSize(currentBatchSize, textSizeBytes) ==
  currentBatchSize + textSizeBytes > maxRequestSizeBytes

\* a test that closes a batch that the text would fill to the byte
ExceedsOrReaches(currentBatchSize, textSizeBytes) ==
  currentBatchSize + textSizeBytes >= maxTextSizeBytes

\* currentBatchSize + textSizeBytes > maxTextSizeBytes
Exceeds(currentBatchSize, textSizeBytes) ==
  currentBatchSize + textSizeBytes > maxTextSizeBytes

\* a batcher that starts the new batch empty and so loses the text
SealDroppingText(st, text) ==
  [currentBatch |-> <<>>,
   currentBatchSize |-> 0,
   promises |-> IF Len(st.currentBatch) > 0
                THEN Append(st.promises, st.currentBatch) ELSE st.promises]

\* the branch taken when the text does not fit: the batch, if it holds
\* anything, is handed over, and the text starts the next one
Seal(st, text) ==
  [currentBatch |-> <<text>>,
   currentBatchSize |-> TextSizeBytes(text),
   promises |-> IF Len(st.currentBatch) > 0
                THEN Append(st.promises, st.currentBatch) ELSE st.promises]

\* one iteration of the for loop
BatchIter(st, text) ==
  IF Exceeds(st.currentBatchSize, TextSizeBytes(text))
  THEN Seal(st, text)
  ELSE [st EXCEPT !.currentBatch = Append(st.currentBatch, text),
                  !.currentBatchSize = st.currentBatchSize + TextSizeBytes(text)]

\* "Don't forget the last batch"
BatchFlush(st) ==
  IF Len(st.currentBatch) > 0
  THEN [st EXCEPT !.promises = Append(st.promises, st.currentBatch)]
  ELSE st

RECURSIVE BatchLoop(_, _, _)
BatchLoop(st, texts, i) ==
  IF i > Len(texts) THEN BatchFlush(st)
  ELSE BatchLoop(BatchIter(st, texts[i]), texts, i + 1)

\* the batches translateStrings hands over for sourceStrings, in order
translateStrings(sourceStrings) ==
  BatchLoop(StartBatching, TextsToBeTranslated(sourceStrings), 1).promises

(***************************************************************************)
(* translateWithExponentialBackoffRetry.  A call is a record: its          *)
(* arguments, the loop variable attempt, where it stands (status), every   *)
(* answer the provider gave it (answers), how often it called the provider *)
(* (calls), every delay it slept (waits) and what it returned or threw.    *)
(***************************************************************************)
DefaultMaxRetries == 5
DefaultBaseDelay == 1000

\* what translator.translateText can answer: the results, or an error with a
\* message that may say 'Too many requests' and a status
Success == [ok |-> TRUE, tooManyRequests |-> FALSE, status |-> 200]

Errors ==
  {[ok |-> FALSE, tooManyRequests |-> m, status |-> st] :
     m \in BOOLEAN, st \in {429, 500}}

\* thrown after the loop
UnexpectedError == [ok |-> FALSE, tooManyRequests |-> FALSE, status |-> 0]

\* error.message?.includes('Too many requests') || error.status === 429
IsRateLimit(error) == error.tooManyRequests \/ error.status = 429

\* the translation of a text into a language: the provider's work, which
\* leaves the text recognisable
Translation(targetLanguage, text) == <<targetLanguage>> \o text

\* the texts of the TextResult[] the provider returns for a batch
TranslateText(batch, targetLanguage) ==
  [i \in 1..Len(batch) |-> Translation(targetLanguage, batch[i])]

RECURSIVE Pow2(_)
Pow2(n) == IF n = 0 THEN 1 ELSE 2 * Pow2(n - 1)

\* a backoff that grows linearly
DelayLinear(baseDelay, attempt) == baseDelay * (attempt + 1)

\* baseDelay * Math.pow(2, attempt)
Delay(baseDelay, attempt) == baseDelay * Pow2(attempt)

\* the call up to its first await: attempt 0 calls the provider
StartCall(batch, targetLanguage, maxRetries, baseDelay) ==
  [batch |-> batch, targetLanguage |-> targetLanguage,
   maxRetries |-> maxRetries, baseDelay |-> baseDelay,
   attempt |-> 0,
   status |-> IF 0 <= maxRetries THEN "attempting" ELSE "failed",
   calls |-> IF 0 <= maxRetries THEN 1 ELSE 0,
   answers |-> <<>>, waits |-> <<>>,
   error |-> IF 0 <= maxRetries THEN Success ELSE UnexpectedError,
   result |-> <<>>]

\* a catch block that retries after any error
OnAnswerRetryingAll(call, answer) ==
  LET heard == [call EXCEPT !.answers = Append(call.answers, answer)]
  IN IF answer.ok
     THEN [heard EXCEPT !.status = "success",
                        !.result = TranslateText(call.batch, call.targetLanguage)]
     ELSE IF call.attempt = call.maxRetries
     THEN [heard EXCEPT !.status = "failed", !.error = answer]
     ELSE [heard EXCEPT
             !.status = "waiting",
             !.waits = Append(call.waits, Delay(call.baseDelay, call.attempt))]

\* a catch block without the test for the last attempt
OnAnswerAlwaysWaiting(call, answer) ==
  LET heard == [call EXCEPT !.answers = Append(call.answers, answer)]
  IN IF answer.ok
     THEN [heard EXCEPT !.status = "success",
                        !.result = TranslateText(call.batch, call.targetLanguage)]
     ELSE IF IsRateLimit(answer)
     THEN [heard EXCEPT
             !.status = "waiting",
             !.waits = Append(call.waits, Delay(call.baseDelay, call.attempt))]
     ELSE [heard EXCEPT !.status = "failed", !.error = answer]

\* the provider answers the call in flight: return result, or the catch block
OnAnswer(call, answer) ==
  LET heard == [call EXCEPT !.answers = Append(call.answers, answer)]
  IN IF answer.ok
     THEN [heard EXCEPT !.status = "success",
                        !.result = TranslateText(call.batch, call.targetLanguage)]
     ELSE IF IsRateLimit(answer)
     THEN IF call.attempt = call.maxRetries
          THEN [heard EXCEPT !.status = "failed", !.error = answer]
          ELSE [heard EXCEPT
                  !.status = "waiting",
                  !.waits = Append(call.waits, Delay(call.baseDelay, call.attempt))]
     ELSE [heard EXCEPT !.status = "failed", !.error = answer]

\* the timer fires: continue, attempt++, and the next provider call
OnTimer(call) ==
  IF call.attempt + 1 <= call.maxRetries
  THEN [call EXCEPT !.attempt = call.attempt + 1,
                    !.status = "attempting",
                    !.calls = call.calls + 1]
  ELSE [call EXCEPT !.attempt = call.attempt + 1,
                    !.status = "failed",
                    !.error = UnexpectedError]

(***************************************************************************)
(* The state.                                                              *)
(***************************************************************************)
VARIABLES
  json,      \* the argument of collectAllStringsFromJson
  stack,     \* its work stack of frames, the top last
  keys,      \* its keys array
  values,    \* its values array
  result,    \* what buildOutputJson(values, keys) returned
  phase,     \* where the flatten / rebuild run stands
  pathKeys,  \* a sequence of object keys, the outermost first
  encoded,   \* the dot-notation path collectAllStringsFromJson gives them
  segments,  \* the keys buildOutputJson reads out of that path
  pathPhase, \* where the encode / decode run stands
  sourceStrings,    \* the argument of translateStrings
  textIndex,        \* how many texts its loop has taken
  currentBatch,     \* its currentBatch
  currentBatchSize, \* its currentBatchSize
  promises,         \* the batches it has handed to the provider, in order
  batchPhase,       \* where the batching run stands
  call,             \* one call of translateWithExponentialBackoffRetry
  mainPc,            \* where main stands
  inputJson,         \* main's inputJson
  targetLanguages,   \* params.targetLanguages
  existingFolders,   \* the languages whose output folder exists
  jsonKeys,          \* main's jsonKeys
  inputJsonStrings,  \* main's inputJsonStrings
  translatePromises, \* main's translatePromises: the calls, in array order
  translatedTexts,   \* main's translatedTexts, once Promise.all resolved
  writePromises,     \* main's writePromises: status and content per language
  outputs,           \* the files written so far, by language
  faults,            \* how many errors the provider has answered
  inputFile,         \* the file at params.inputFilePath
  parses,            \* how many times main has called JSON.parse
  noTranslateTags,   \* params.startTagForNoTranslate and endTagForNoTranslate
  maskValue,         \* a string value before masking
  maskedText,        \* replaceParameterStringsInJSONValueWithKeepTags of it
  unmaskedText,      \* removeKeepTagsFromString of that
  maskPhase,         \* where the mask / unmask run stands
  arr,               \* the argument of groupItemsByLang
  acc,               \* the accumulator of its reduce, in insertion order
  groupIndex,        \* how many items the reduce has taken
  groupPhase,        \* where the grouping run stands
  replaceInput,      \* the str replaceAll was called with
  replaceStr,        \* its str, reassigned in the loop
  replaceSearch,     \* its search
  replaceReplacement, \* its replacement
  replacePhase,      \* where the replaceAll run stands
  replaceRounds      \* the rounds its loop has made so far, modulo 2

jsonVars == <<json, stack, keys, values, result, phase>>
pathVars == <<pathKeys, encoded, segments, pathPhase>>
batchVars ==
  <<sourceStrings, textIndex, currentBatch, currentBatchSize, promises,
    batchPhase>>
retryVars == <<call>>
mainVars ==
  <<mainPc, inputJson, targetLanguages, existingFolders, jsonKeys,
    inputJsonStrings, translatePromises, translatedTexts, writePromises,
    outputs, faults>>
fileVars == <<inputFile, parses, noTranslateTags>>
maskVars == <<maskValue, maskedText, unmaskedText, maskPhase>>
groupVars == <<arr, acc, groupIndex, groupPhase>>
replaceVars ==
  <<replaceInput, replaceStr, replaceSearch, replaceReplacement, replacePhase,
    replaceRounds>>
vars ==
  <<jsonVars, pathVars, batchVars, retryVars, mainVars, fileVars, maskVars, groupVars, replaceVars>>

\* the parts of the state a specification does not use
JsonIdle ==
  /\ json = EmptyObject
  /\ stack = <<>>
  /\ keys = <<>>
  /\ values = <<>>
  /\ result = Undefined
  /\ phase = "idle"

PathIdle ==
  /\ pathKeys = <<>>
  /\ encoded = <<>>
  /\ segments = <<>>
  /\ pathPhase = "idle"

RetryIdle == call = StartCall(<<>>, "", -1, 0)

MaskIdle ==
  /\ maskValue = <<>>
  /\ maskedText = <<>>
  /\ unmaskedText = <<>>
  /\ maskPhase = "idle"

GroupIdle ==
  /\ arr = <<>>
  /\ acc = <<>>
  /\ groupIndex = 0
  /\ groupPhase = "idle"

ReplaceIdle ==
  /\ replaceInput = <<>>
  /\ replaceStr = <<>>
  /\ replaceSearch = <<>>
  /\ replaceReplacement = <<>>
  /\ replacePhase = "idle"
  /\ replaceRounds = 0

FileIdle ==
  /\ inputFile = <<>>
  /\ parses = 0
  /\ noTranslateTags = <<>>

MainIdle ==
  /\ FileIdle
  /\ mainPc = "idle"
  /\ inputJson = Undefined
  /\ targetLanguages = <<>>
  /\ existingFolders = {}
  /\ jsonKeys = <<>>
  /\ inputJsonStrings = <<>>
  /\ translatePromises = <<>>
  /\ translatedTexts = Undefined
  /\ writePromises = <<>>
  /\ outputs = <<>>
  /\ faults = 0

BatchIdle ==
  /\ sourceStrings = <<>>
  /\ textIndex = 0
  /\ currentBatch = <<>>
  /\ currentBatchSize = 0
  /\ promises = <<>>
  /\ batchPhase = "idle"

(***************************************************************************)
(* The documents the runs start from.                                      *)
(***************************************************************************)
ValueStrings == {<<"x">>, <<>>, KeepOpen \o <<"x">> \o KeepClose}

DocKeys ==
  SeqsUpTo(KeyAlphabet, MaxKeyLen) \cup {HasOwnPropertyKey, ValueOfKey}

StringLeaves == {StrV(s) : s \in ValueStrings}

\* an array holding a string and an object that holds a string
ArrayLeaf ==
  ArrV(<<StrV(<<"x">>), ObjV(<<[k |-> <<"a">>, v |-> StrV(<<"x">>)]>>)>>)

OtherLeaves == {NumV, BoolV, NullV, Undefined, ArrayLeaf}

InnerLeaves == {StrV(<<"x">>), StrV(KeepOpen \o <<"x">> \o KeepClose), NumV}

\* the entry lists of at most n entries with distinct keys and values from vals
RECURSIVE EntryLists(_, _)
EntryLists(vals, n) ==
  IF n = 0 THEN {<<>>}
  ELSE LET shorter == EntryLists(vals, n - 1)
       IN shorter \cup
          {Append(es, [k |-> key, v |-> val]) :
             es \in {x \in shorter : Len(x) = n - 1},
             key \in DocKeys, val \in vals}

DistinctKeys(es) == \A i, j \in 1..Len(es) : es[i].k = es[j].k => i = j

ObjectsOver(vals, n) ==
  {ObjV(es) : es \in {x \in EntryLists(vals, n) : DistinctKeys(x)}}

InnerObjects == ObjectsOver(InnerLeaves, MaxInner)

Documents ==
  ObjectsOver(StringLeaves \cup OtherLeaves \cup InnerObjects, MaxEntries)

(***************************************************************************)
(* collectAllStringsFromJson.  A run is [stack, keys, values, threw].      *)
(***************************************************************************)
Frame(obj, currentPrefix) ==
  [obj |-> obj, currentPrefix |-> currentPrefix,
   keysToProcess |-> ObjectKeys(obj), currentKeyIndex |-> 0]

StartCollect(obj) ==
  [stack |-> <<Frame(obj, <<>>)>>, keys |-> <<>>, values |-> <<>>,
   threw |-> FALSE]

\* obj.hasOwnProperty is callable: no own property hides the inherited method
CanCallHasOwnProperty(obj) == Get(obj, HasOwnPropertyKey).t = "function"

\* one iteration of the while loop
CollectIter(st) ==
  LET current == st.stack[Len(st.stack)]
      obj == current.obj
      currentKeyIndex == current.currentKeyIndex
      key == current.keysToProcess[currentKeyIndex + 1]
      advanced ==
        [st.stack EXCEPT ![Len(st.stack)].currentKeyIndex = currentKeyIndex + 1]
      value == Get(obj, key)
      newKey == JoinPath(current.currentPrefix, EscapeKey(key))
  IN IF currentKeyIndex >= Len(current.keysToProcess)
     THEN [st EXCEPT !.stack = SubSeq(st.stack, 1, Len(st.stack) - 1)]
     ELSE IF ~CanCallHasOwnProperty(obj)
     THEN [st EXCEPT !.stack = advanced, !.threw = TRUE]
     ELSE IF ~HasOwn(obj, key)
     THEN [st EXCEPT !.stack = advanced]
     ELSE IF IsString(value)
     THEN [st EXCEPT !.stack = advanced,
                     !.keys = Append(st.keys, newKey),
                     !.values = Append(st.values, value.s)]
     ELSE IF IsPlainObject(value)
     THEN [st EXCEPT !.stack = Append(advanced, Frame(value, newKey))]
     ELSE [st EXCEPT !.stack = advanced]

\* the loop to its end: the run that returns { keys, values }, or threw
RECURSIVE CollectLoop(_)
CollectLoop(st) ==
  IF st.stack = <<>> \/ st.threw THEN st ELSE CollectLoop(CollectIter(st))

collectAllStringsFromJson(obj) == CollectLoop(StartCollect(obj))

(***************************************************************************)
(* The flatten / rebuild run, one loop iteration per step.                 *)
(***************************************************************************)
Run == [stack |-> stack, keys |-> keys, values |-> values, threw |-> FALSE]

Top == stack[Len(stack)]

CurrentKey == Top.keysToProcess[Top.currentKeyIndex + 1]

CurrentValue == Get(Top.obj, CurrentKey)

JsonInit ==
  /\ json \in Documents
  /\ stack = StartCollect(json).stack
  /\ keys = <<>>
  /\ values = <<>>
  /\ result = Undefined
  /\ phase = "collect"
  /\ PathIdle
  /\ BatchIdle
  /\ RetryIdle
  /\ MaskIdle
  /\ GroupIdle
  /\ ReplaceIdle
  /\ MainIdle

InLoop == phase = "collect" /\ stack # <<>>

HasKey == Top.currentKeyIndex < Len(Top.keysToProcess)

Iterate ==
  /\ stack' = CollectIter(Run).stack
  /\ keys' = CollectIter(Run).keys
  /\ values' = CollectIter(Run).values
  /\ phase' = IF CollectIter(Run).threw THEN "threw" ELSE phase
  /\ UNCHANGED <<json, result, pathVars, batchVars, retryVars, mainVars, fileVars, maskVars, groupVars, replaceVars>>

\* currentKeyIndex >= keysToProcess.length: stack.pop()
PopFrame == InLoop /\ ~HasKey /\ Iterate

\* obj.hasOwnProperty(key) when obj.hasOwnProperty is not a function
CollectThrow == InLoop /\ HasKey /\ ~CanCallHasOwnProperty(Top.obj) /\ Iterate

\* a string: keys.push(newKey); values.push(value)
CollectString ==
  /\ InLoop /\ HasKey /\ CanCallHasOwnProperty(Top.obj)
  /\ IsString(CurrentValue)
  /\ Iterate

\* a plain object: push its frame
CollectObject ==
  /\ InLoop /\ HasKey /\ CanCallHasOwnProperty(Top.obj)
  /\ IsPlainObject(CurrentValue)
  /\ Iterate

\* anything else: the next iteration
CollectSkip ==
  /\ InLoop /\ HasKey /\ CanCallHasOwnProperty(Top.obj)
  /\ ~IsString(CurrentValue) /\ ~IsPlainObject(CurrentValue)
  /\ Iterate

\* stack.length = 0: return { keys, values }
CollectReturn ==
  /\ phase = "collect" /\ stack = <<>>
  /\ phase' = "collected"
  /\ UNCHANGED <<json, stack, keys, values, result, pathVars, batchVars, retryVars, mainVars, fileVars, maskVars, groupVars, replaceVars>>

\* buildOutputJson(r.values, r.keys) on what was collected
Rebuild ==
  /\ phase = "collected"
  /\ result' = buildOutputJson(StringArray(values), keys)
  /\ phase' = "built"
  /\ UNCHANGED <<json, stack, keys, values, pathVars, batchVars, retryVars, mainVars, fileVars, maskVars, groupVars, replaceVars>>

JsonNext ==
  \/ PopFrame
  \/ CollectThrow
  \/ CollectString
  \/ CollectObject
  \/ CollectSkip
  \/ CollectReturn
  \/ Rebuild

SpecJson == JsonInit /\ [][JsonNext]_vars


(***************************************************************************)
(* Paths on their own: a sequence of keys is encoded the way                *)
(* collectAllStringsFromJson encodes it and decoded the way buildOutputJson *)
(* decodes it.                                                             *)
(***************************************************************************)
PathKeySet == SeqsUpTo(KeyAlphabet, MaxPathKeyLen)

KeySequences == UNION {[1..n -> PathKeySet] : n \in 1..MaxPathDepth}

\* the document with one string, under the given keys
RECURSIVE ChainDocument(_)
ChainDocument(ks) ==
  ObjV(<<[k |-> Head(ks),
          v |-> IF Len(ks) = 1 THEN StrV(<<"x">>)
                ELSE ChainDocument(Tail(ks))]>>)

PathInit ==
  /\ pathKeys \in KeySequences
  /\ encoded = <<>>
  /\ segments = <<>>
  /\ pathPhase = "start"
  /\ JsonIdle
  /\ BatchIdle
  /\ RetryIdle
  /\ MaskIdle
  /\ GroupIdle
  /\ ReplaceIdle
  /\ MainIdle

\* the path collectAllStringsFromJson emits for the one string
EncodePath ==
  /\ pathPhase = "start"
  /\ encoded' = collectAllStringsFromJson(ChainDocument(pathKeys)).keys[1]
  /\ pathPhase' = "encoded"
  /\ UNCHANGED <<pathKeys, segments, jsonVars, batchVars, retryVars, mainVars, fileVars, maskVars, groupVars, replaceVars>>

\* the split and the unescaping of buildOutputJson
DecodePath ==
  /\ pathPhase = "encoded"
  /\ segments' = DecodedSegments(encoded)
  /\ pathPhase' = "decoded"
  /\ UNCHANGED <<pathKeys, encoded, jsonVars, batchVars, retryVars, mainVars, fileVars, maskVars, groupVars, replaceVars>>

PathNext == EncodePath \/ DecodePath

SpecPath == PathInit /\ [][PathNext]_vars

\* C4: splitting the encoded path on unescaped dots and decoding each segment
\* recovers exactly the original key sequence, for any keys.
C4_SplitJoinRecoversKeys == pathPhase = "decoded" => segments = pathKeys

\* the same for one key that holds a backslash followed by a character other
\* than a dot: the backslash and that character are kept
C4_BackslashKeptLiterally ==
  (/\ pathPhase = "decoded"
   /\ Len(pathKeys) = 1
   /\ \E i \in 1..(Len(pathKeys[1]) - 1) :
        pathKeys[1][i] = Backslash /\ pathKeys[1][i + 1] # Dot)
  => segments = pathKeys

(***************************************************************************)
(* The batching run of translateStrings, one loop iteration per step.      *)
(***************************************************************************)
SourceTexts ==
  {<<>>, <<"x">>, <<"{", "é", "}">>, <<NearRun>>, <<FullRun>>, <<OverRun>>,
   <<NearRun, "{", "é", "}", "x">>}

Batching ==
  [currentBatch |-> currentBatch, currentBatchSize |-> currentBatchSize,
   promises |-> promises]

CurrentText == TextsToBeTranslated(sourceStrings)[textIndex + 1]

BatchInit ==
  /\ sourceStrings \in SeqsUpTo(SourceTexts, MaxStrings)
  /\ textIndex = 0
  /\ currentBatch = StartBatching.currentBatch
  /\ currentBatchSize = StartBatching.currentBatchSize
  /\ promises = StartBatching.promises
  /\ batchPhase = "loop"
  /\ JsonIdle
  /\ PathIdle
  /\ RetryIdle
  /\ MaskIdle
  /\ GroupIdle
  /\ ReplaceIdle
  /\ MainIdle

InBatchLoop == batchPhase = "loop" /\ textIndex < Len(sourceStrings)

TakeText ==
  /\ currentBatch' = BatchIter(Batching, CurrentText).currentBatch
  /\ currentBatchSize' = BatchIter(Batching, CurrentText).currentBatchSize
  /\ promises' = BatchIter(Batching, CurrentText).promises
  /\ textIndex' = textIndex + 1
  /\ UNCHANGED <<sourceStrings, batchPhase, jsonVars, pathVars, retryVars, mainVars, fileVars, maskVars, groupVars, replaceVars>>

\* the text does not fit and the batch holds something: the batch is sent
SendFullBatch ==
  /\ InBatchLoop
  /\ Exceeds(currentBatchSize, TextSizeBytes(CurrentText))
  /\ Len(currentBatch) > 0
  /\ TakeText

\* the text does not fit and the batch is empty: nothing is sent
StartWithLargeText ==
  /\ InBatchLoop
  /\ Exceeds(currentBatchSize, TextSizeBytes(CurrentText))
  /\ Len(currentBatch) = 0
  /\ TakeText

\* the text fits: currentBatch.push(text)
AddToBatch ==
  /\ InBatchLoop
  /\ ~Exceeds(currentBatchSize, TextSizeBytes(CurrentText))
  /\ TakeText

FinishBatching ==
  /\ promises' = BatchFlush(Batching).promises
  /\ batchPhase' = "returned"
  /\ UNCHANGED <<sourceStrings, textIndex, currentBatch, currentBatchSize,
                 jsonVars, pathVars, retryVars, mainVars, fileVars, maskVars, groupVars, replaceVars>>

\* after the loop, with a last batch to send
SendLastBatch ==
  /\ batchPhase = "loop" /\ textIndex = Len(sourceStrings)
  /\ Len(currentBatch) > 0
  /\ FinishBatching

\* after the loop, with nothing left to send
ReturnWithoutLastBatch ==
  /\ batchPhase = "loop" /\ textIndex = Len(sourceStrings)
  /\ Len(currentBatch) = 0
  /\ FinishBatching

BatchNext ==
  \/ SendFullBatch
  \/ StartWithLargeText
  \/ AddToBatch
  \/ SendLastBatch
  \/ ReturnWithoutLastBatch

SpecBatch == BatchInit /\ [][BatchNext]_vars

(***************************************************************************)
(* One call of translateWithExponentialBackoffRetry against a provider     *)
(* that answers each attempt as it likes.                                  *)
(***************************************************************************)
RetryLimits == {DefaultMaxRetries} \cup 0..MaxOtherRetries

BaseDelays == {DefaultBaseDelay} \cup 1..MaxOtherDelay

RetryInit ==
  /\ \E maxRetries \in RetryLimits, baseDelay \in BaseDelays :
       call = StartCall(<<<<"x">>>>, "de", maxRetries, baseDelay)
  /\ JsonIdle
  /\ PathIdle
  /\ BatchIdle
  /\ MainIdle
  /\ MaskIdle
  /\ GroupIdle
  /\ ReplaceIdle

Answered(answer) ==
  /\ call.status = "attempting"
  /\ call' = OnAnswer(call, answer)
  /\ UNCHANGED <<jsonVars, pathVars, batchVars, mainVars, fileVars, maskVars, groupVars, replaceVars>>

\* translateText resolves
ProviderSucceeds == Answered(Success)

\* translateText rejects with a rate-limit error before the last attempt
ProviderRateLimits ==
  /\ call.attempt < call.maxRetries
  /\ \E error \in Errors : IsRateLimit(error) /\ Answered(error)

\* translateText rejects with a rate-limit error on the last attempt
ProviderRateLimitsLastAttempt ==
  /\ call.attempt = call.maxRetries
  /\ \E error \in Errors : IsRateLimit(error) /\ Answered(error)

\* translateText rejects with any other error
ProviderFails == \E error \in Errors : ~IsRateLimit(error) /\ Answered(error)

\* the setTimeout of the backoff fires
TimerFires ==
  /\ call.status = "waiting"
  /\ call' = OnTimer(call)
  /\ UNCHANGED <<jsonVars, pathVars, batchVars, mainVars, fileVars, maskVars, groupVars, replaceVars>>

RetryNext ==
  \/ ProviderSucceeds
  \/ ProviderRateLimits
  \/ ProviderRateLimitsLastAttempt
  \/ ProviderFails
  \/ TimerFires

SpecRetry == RetryInit /\ [][RetryNext]_vars

\* the provider answers every attempt and every timer fires
SpecRetryFair == SpecRetry /\ WF_vars(RetryNext)

(***************************************************************************)
(* main on a .json input file.  Between two awaits main runs as one step.  *)
(* The provider answers each call in flight when and as it likes, with at  *)
(* most MaxFaults errors in a run; file system calls succeed.  An output   *)
(* file is recorded as the object it was serialised from, under the        *)
(* language of its name.                                                   *)
(***************************************************************************)
Languages == {"de", "fr"}

LanguageLists == {<<"de">>, <<"de", "fr">>}

Entry(key, val) == [k |-> key, v |-> val]

\* the parsed inputs: no string, one string, a placeholder and a nested
\* dotted key, and two strings that need a batch each
MainDocuments ==
  {EmptyObject,
   ObjV(<<Entry(<<"a">>, NumV)>>),
   ObjV(<<Entry(<<"a">>, StrV(<<"x">>))>>),
   ObjV(<<Entry(<<"a">>, StrV(<<"{", "x", "}">>)),
          Entry(<<"b">>, ObjV(<<Entry(<<"c", ".", "d">>, StrV(<<"x">>))>>))>>),
   ObjV(<<Entry(<<"a">>, StrV(<<FullRun>>)), Entry(<<"b">>, StrV(<<"x">>))>>)}

\* { lang: targetLanguage, text: result.map((r) => r.text) }
TranslatedTextResult(targetLanguage, text) ==
  ObjV(<<Entry(<<"l", "a", "n", "g">>, StrV(<<targetLanguage>>)),
         Entry(<<"t", "e", "x", "t">>, StringArray(text))>>)

\* translateStrings(inputJsonStrings, targetLang, translator): one call per
\* batch, started at once with the default maxRetries and baseDelay
CallsFor(strings, targetLang) ==
  [b \in 1..Len(translateStrings(strings)) |->
     StartCall(translateStrings(strings)[b], targetLang,
               DefaultMaxRetries, DefaultBaseDelay)]

\* targetLanguages.flatMap(...)
RECURSIVE FlatMapCalls(_, _)
FlatMapCalls(strings, langs) ==
  IF langs = <<>> THEN <<>>
  ELSE CallsFor(strings, Head(langs)) \o FlatMapCalls(strings, Tail(langs))

\* translatedTexts[index], where translatedTexts is the array of the results
\* of all calls
ResultAt(texts, index) == ElementAt(texts, index)

\* the body of the writePromises callback from buildOutputJson on, for the
\* language at index (0-based): the write in flight, or the rejection
BuildAndWrite(texts, index, allKeys) ==
  LET resultJson == buildOutputJson(ResultAt(texts, index), allKeys)
  IN IF resultJson = Threw
     THEN [status |-> "rejected", content |-> Undefined]
     ELSE [status |-> "writing", content |-> resultJson]

\* the callback up to its first await
StartWrite(texts, index, allKeys, folderExists) ==
  IF folderExists THEN BuildAndWrite(texts, index, allKeys)
  ELSE [status |-> "mkdir", content |-> Undefined]

\* the content of a file as JSON.parse sees it: a text that parses to a
\* value, or one that makes it throw; the empty text is of the second kind
JsonText(value) == [wellFormed |-> TRUE, empty |-> FALSE, value |-> value]

MalformedText == [wellFormed |-> FALSE, empty |-> FALSE, value |-> Undefined]

EmptyText == [wellFormed |-> FALSE, empty |-> TRUE, value |-> Undefined]

\* the files main can be pointed at: unreadable, or readable with a text
JsonFiles ==
  {[readable |-> FALSE, content |-> EmptyText]}
  \cup {[readable |-> TRUE, content |-> c] :
          c \in {MalformedText, EmptyText, JsonText(NullV)}
                \cup {JsonText(d) : d \in MainDocuments}}

\* fs.promises.readFile(inputFilePath, 'utf8').catch(() => '')
ReadFileOrEmpty(file) == IF file.readable THEN file.content ELSE EmptyText

\* a parse step that goes on with an empty object after an error
JsonParseOrEmptyObject(jsonString) ==
  IF jsonString.wellFormed THEN jsonString.value ELSE EmptyObject

\* let inputJson = null; try { inputJson = JSON.parse(jsonString) } catch {}
JsonParseOrNull(jsonString) ==
  IF jsonString.wellFormed THEN jsonString.value ELSE NullV

ParsedInput == JsonParseOrNull(ReadFileOrEmpty(inputFile))

MainJsonInit ==
  /\ mainPc = "readFile"
  /\ inputFile \in JsonFiles
  /\ parses = 0
  /\ noTranslateTags = <<>>
  /\ inputJson = NullV
  /\ targetLanguages \in LanguageLists
  /\ existingFolders \in SUBSET Languages
  /\ jsonKeys = <<>>
  /\ inputJsonStrings = <<>>
  /\ translatePromises = <<>>
  /\ translatedTexts = Undefined
  /\ writePromises = <<>>
  /\ outputs = [lang \in Languages |-> Undefined]
  /\ faults = 0
  /\ JsonIdle
  /\ PathIdle
  /\ BatchIdle
  /\ RetryIdle
  /\ MaskIdle
  /\ GroupIdle
  /\ ReplaceIdle

\* the read has settled; the text is parsed once; inputJson === null: return
MainReturnsWithoutInput ==
  /\ mainPc = "readFile"
  /\ ParsedInput = NullV
  /\ parses' = parses + 1
  /\ inputJson' = NullV
  /\ mainPc' = "resolved"
  /\ UNCHANGED <<targetLanguages, existingFolders, jsonKeys,
                 inputJsonStrings, translatePromises, translatedTexts,
                 writePromises, outputs, faults, jsonVars, pathVars,
                 batchVars, retryVars, inputFile, noTranslateTags,
                 maskVars, groupVars, replaceVars>>

\* the read has settled; the text is parsed once; collectAllStringsFromJson,
\* then every call of every language is started, then await
\* Promise.all(translatePromises)
MainStartsTranslations ==
  /\ mainPc = "readFile"
  /\ ParsedInput # NullV
  /\ parses' = parses + 1
  /\ inputJson' = ParsedInput
  /\ LET collected == collectAllStringsFromJson(ParsedInput)
     IN IF collected.threw
        THEN /\ mainPc' = "rejected"
             /\ UNCHANGED <<jsonKeys, inputJsonStrings, translatePromises>>
        ELSE /\ jsonKeys' = collected.keys
             /\ inputJsonStrings' = collected.values
             /\ translatePromises' =
                  FlatMapCalls(collected.values, targetLanguages)
             /\ mainPc' = "awaitTranslations"
  /\ UNCHANGED <<targetLanguages, existingFolders, translatedTexts,
                 writePromises, outputs, faults, jsonVars, pathVars,
                 batchVars, retryVars, inputFile, noTranslateTags,
                 maskVars, groupVars, replaceVars>>

\* a timer that keeps the thread busy: no answer is taken while a call waits
InFlightWhileNoneWaits(calls, p) ==
  /\ calls[p].status = "attempting"
  /\ \A q \in 1..Len(calls) : calls[q].status # "waiting"

\* call p is at its await translator.translateText(...); the timer of a
\* waiting call is a setTimeout, which holds up nothing else
InFlight(calls, p) == calls[p].status = "attempting"

ProviderAnswers(p, answer) ==
  /\ InFlight(translatePromises, p)
  /\ translatePromises' =
       [translatePromises EXCEPT ![p] = OnAnswer(translatePromises[p], answer)]
  /\ faults' = IF answer.ok THEN faults ELSE faults + 1
  /\ UNCHANGED <<mainPc, inputJson, targetLanguages, existingFolders, jsonKeys,
                 inputJsonStrings, translatedTexts, writePromises, outputs,
                 jsonVars, pathVars, batchVars, retryVars,
                 fileVars, maskVars, groupVars, replaceVars>>

\* the provider resolves a call in flight
MainProviderSucceeds ==
  \E p \in 1..Len(translatePromises) : ProviderAnswers(p, Success)

\* the provider rejects a call in flight
MainProviderErrs ==
  /\ faults < MaxFaults
  /\ \E p \in 1..Len(translatePromises), error \in Errors :
       ProviderAnswers(p, error)

\* the backoff timer of call p fires
TimerFiresFor(p) ==
  /\ translatePromises[p].status = "waiting"
  /\ translatePromises' =
       [translatePromises EXCEPT ![p] = OnTimer(translatePromises[p])]
  /\ UNCHANGED <<mainPc, inputJson, targetLanguages, existingFolders,
                 jsonKeys, inputJsonStrings, translatedTexts, writePromises,
                 outputs, faults, jsonVars, pathVars, batchVars, retryVars,
                 fileVars, maskVars, groupVars, replaceVars>>

\* a backoff timer fires
MainTimerFires == \E p \in 1..Len(translatePromises) : TimerFiresFor(p)

\* Promise.all(translatePromises) rejects with the first rejection
MainTranslationsReject ==
  /\ mainPc = "awaitTranslations"
  /\ \E p \in 1..Len(translatePromises) : translatePromises[p].status = "failed"
  /\ mainPc' = "rejected"
  /\ UNCHANGED <<inputJson, targetLanguages, existingFolders, jsonKeys,
                 inputJsonStrings, translatePromises, translatedTexts,
                 writePromises, outputs, faults, jsonVars, pathVars,
                 batchVars, retryVars,
                 fileVars, maskVars, groupVars, replaceVars>>

\* Promise.all(translatePromises) resolves: translatedTexts, then the
\* writePromises callback runs for every language up to its first await
MainStartsWrites ==
  /\ mainPc = "awaitTranslations"
  /\ \A p \in 1..Len(translatePromises) : translatePromises[p].status = "success"
  /\ LET texts ==
           ArrV([p \in 1..Len(translatePromises) |->
                   TranslatedTextResult(translatePromises[p].targetLanguage,
                                        translatePromises[p].result)])
     IN /\ translatedTexts' = texts
        /\ writePromises' =
             [n \in 1..Len(targetLanguages) |->
                StartWrite(texts, n - 1, jsonKeys,
                           targetLanguages[n] \in existingFolders)]
  /\ mainPc' = "awaitWrites"
  /\ UNCHANGED <<inputJson, targetLanguages, existingFolders, jsonKeys,
                 inputJsonStrings, translatePromises, outputs, faults,
                 jsonVars, pathVars, batchVars, retryVars,
                 fileVars, maskVars, groupVars, replaceVars>>

\* fs.promises.mkdir resolves for one language: the callback goes on
MainMkdirDone ==
  \E n \in 1..Len(writePromises) :
    /\ writePromises[n].status = "mkdir"
    /\ writePromises' =
         [writePromises EXCEPT ![n] = BuildAndWrite(translatedTexts, n - 1, jsonKeys)]
    /\ existingFolders' = existingFolders \cup {targetLanguages[n]}
    /\ UNCHANGED <<mainPc, inputJson, targetLanguages, jsonKeys,
                   inputJsonStrings, translatePromises, translatedTexts,
                   outputs, faults, jsonVars, pathVars, batchVars, retryVars,
                 fileVars, maskVars, groupVars, replaceVars>>

\* fs.promises.writeFile resolves for one language
MainWriteFileDone ==
  \E n \in 1..Len(writePromises) :
    /\ writePromises[n].status = "writing"
    /\ writePromises' = [writePromises EXCEPT ![n].status = "written"]
    /\ outputs' = [outputs EXCEPT ![targetLanguages[n]] = writePromises[n].content]
    /\ UNCHANGED <<mainPc, inputJson, targetLanguages, existingFolders,
                   jsonKeys, inputJsonStrings, translatePromises,
                   translatedTexts, faults, jsonVars, pathVars, batchVars,
                   retryVars,
                 fileVars, maskVars, groupVars, replaceVars>>

\* Promise.all(writePromises) rejects with the first rejection
MainWritesReject ==
  /\ mainPc = "awaitWrites"
  /\ \E n \in 1..Len(writePromises) : writePromises[n].status = "rejected"
  /\ mainPc' = "rejected"
  /\ UNCHANGED <<inputJson, targetLanguages, existingFolders, jsonKeys,
                 inputJsonStrings, translatePromises, translatedTexts,
                 writePromises, outputs, faults, jsonVars, pathVars,
                 batchVars, retryVars,
                 fileVars, maskVars, groupVars, replaceVars>>

\* Promise.all(writePromises) resolves: main returns
MainResolves ==
  /\ mainPc = "awaitWrites"
  /\ \A n \in 1..Len(writePromises) : writePromises[n].status = "written"
  /\ mainPc' = "resolved"
  /\ UNCHANGED <<inputJson, targetLanguages, existingFolders, jsonKeys,
                 inputJsonStrings, translatePromises, translatedTexts,
                 writePromises, outputs, faults, jsonVars, pathVars,
                 batchVars, retryVars,
                 fileVars, maskVars, groupVars, replaceVars>>

MainJsonNext ==
  \/ MainReturnsWithoutInput
  \/ MainStartsTranslations
  \/ MainProviderSucceeds
  \/ MainProviderErrs
  \/ MainTimerFires
  \/ MainTranslationsReject
  \/ MainStartsWrites
  \/ MainMkdirDone
  \/ MainWriteFileDone
  \/ MainWritesReject
  \/ MainResolves

SpecMainJson == MainJsonInit /\ [][MainJsonNext]_vars

(***************************************************************************)
(* main on a file whose extension allows ignoring blocks (HTML-like).      *)
(* The temporary file is written and read back unchanged; file system      *)
(* calls succeed.  translatePromises holds one task per language: the      *)
(* callback of targetLanguages.map, with the text it sent, what the        *)
(* provider returned and what it is about to write.                        *)
(***************************************************************************)
\* the configured tag pair: none, or [ and ]
TagPairs ==
  {[startTag |-> <<>>, endTag |-> <<>>],
   [startTag |-> <<"[">>, endTag |-> <<"]">>]}

\* the documents: plain text, an ignored block, an end tag without its start
\* tag, and a text that holds the keep markers itself
FlatTexts ==
  {<<"x">>,
   <<"[", "x", "]", "y">>,
   <<"x", "]">>,
   KeepOpen \o <<"x">> \o KeepClose}

FlatFiles == {[readable |-> TRUE, content |-> t] : t \in FlatTexts}

\* textWithNoTranslateTagsReplaced: both tags given, each replaced by its
\* keep marker
TextWithNoTranslateTagsReplaced(inputText, tags) ==
  IF tags.startTag # <<>> /\ tags.endTag # <<>>
  THEN replaceAll(replaceAll(inputText, tags.startTag, KeepOpen),
                  tags.endTag, KeepClose)
  ELSE inputText

\* what translator.translateText can settle with for a whole text
FlatAnswers == {"text", "noText", "error"}

\* the callback up to its first await: the provider is called
StartFlatTask(targetLang, text) ==
  [targetLang |-> targetLang, status |-> "translating", calls |-> 1,
   text |-> text, answer |-> "none", translatedText |-> Undefined,
   content |-> Undefined]

\* the callback once the file is to be written, from existsSync on
FlatWrite(task, resultText, folderExists) ==
  [task EXCEPT !.status = IF folderExists THEN "writing" ELSE "mkdir",
               !.content = StrV(resultText)]

\* the callback with the text the provider returned: resultText, then the
\* write
OnFlatText(task, translatedText, folderExists) ==
  FlatWrite([task EXCEPT !.translatedText = StrV(translatedText)],
            removeKeepTagsFromString(translatedText), folderExists)

\* a callback that throws on a result that has no text
OnFlatAnswerWithoutSkip(task, answer, folderExists) ==
  LET heard == [task EXCEPT !.answer = answer]
  IN IF answer = "text"
     THEN OnFlatText(heard, Translation(task.targetLang, task.text),
                     folderExists)
     ELSE [heard EXCEPT !.status = "rejected"]

\* the callback after translateText has settled: it rejects, or returns
\* because translatedText === undefined, or goes on to write resultText
OnFlatAnswer(task, answer, folderExists) ==
  LET heard == [task EXCEPT !.answer = answer]
  IN IF answer = "error" THEN [heard EXCEPT !.status = "rejected"]
     ELSE IF answer = "noText" THEN [heard EXCEPT !.status = "skipped"]
     ELSE OnFlatText(heard, Translation(task.targetLang, task.text),
                     folderExists)

MainFlatInit ==
  /\ mainPc = "readFile"
  /\ inputFile \in FlatFiles
  /\ parses = 0
  /\ noTranslateTags \in TagPairs
  /\ inputJson = Undefined
  /\ targetLanguages \in LanguageLists
  /\ existingFolders \in SUBSET Languages
  /\ jsonKeys = <<>>
  /\ inputJsonStrings = <<>>
  /\ translatePromises = <<>>
  /\ translatedTexts = Undefined
  /\ writePromises = <<>>
  /\ outputs = [lang \in Languages |-> Undefined]
  /\ faults = 0
  /\ JsonIdle
  /\ PathIdle
  /\ BatchIdle
  /\ RetryIdle
  /\ MaskIdle
  /\ GroupIdle
  /\ ReplaceIdle

\* the text has been read back: the callback of every language runs up to
\* its translateText call, then await Promise.all(translatePromises)
MainFlatStartsTranslations ==
  /\ mainPc = "readFile"
  /\ translatePromises' =
       [n \in 1..Len(targetLanguages) |->
          StartFlatTask(targetLanguages[n],
                        TextWithNoTranslateTagsReplaced(inputFile.content,
                                                        noTranslateTags))]
  /\ mainPc' = "awaitTranslations"
  /\ UNCHANGED <<inputJson, targetLanguages, existingFolders, jsonKeys,
                 inputJsonStrings, translatedTexts, writePromises, outputs,
                 faults, jsonVars, pathVars, batchVars, retryVars, fileVars, maskVars, groupVars, replaceVars>>

FlatProviderAnswers(n, answer) ==
  /\ translatePromises[n].status = "translating"
  /\ translatePromises' =
       [translatePromises EXCEPT ![n] =
          OnFlatAnswer(translatePromises[n], answer,
                       targetLanguages[n] \in existingFolders)]
  /\ faults' = IF answer = "error" THEN faults + 1 ELSE faults
  /\ UNCHANGED <<mainPc, inputJson, targetLanguages, existingFolders, jsonKeys,
                 inputJsonStrings, translatedTexts, writePromises, outputs,
                 jsonVars, pathVars, batchVars, retryVars, fileVars, maskVars, groupVars, replaceVars>>

\* translateText resolves with a text
FlatProviderReturnsText ==
  \E n \in 1..Len(translatePromises) : FlatProviderAnswers(n, "text")

\* translateText resolves with a result whose text is undefined
FlatProviderReturnsNoText ==
  \E n \in 1..Len(translatePromises) : FlatProviderAnswers(n, "noText")

\* translateText rejects, with whatever error
FlatProviderRejects ==
  /\ faults < MaxFaults
  /\ \E n \in 1..Len(translatePromises) : FlatProviderAnswers(n, "error")

\* fs.promises.mkdir resolves for one language
FlatMkdirDone ==
  \E n \in 1..Len(translatePromises) :
    /\ translatePromises[n].status = "mkdir"
    /\ translatePromises' = [translatePromises EXCEPT ![n].status = "writing"]
    /\ existingFolders' = existingFolders \cup {targetLanguages[n]}
    /\ UNCHANGED <<mainPc, inputJson, targetLanguages, jsonKeys,
                   inputJsonStrings, translatedTexts, writePromises, outputs,
                   faults, jsonVars, pathVars, batchVars, retryVars, fileVars, maskVars, groupVars, replaceVars>>

\* fs.promises.writeFile resolves for one language
FlatWriteFileDone ==
  \E n \in 1..Len(translatePromises) :
    /\ translatePromises[n].status = "writing"
    /\ translatePromises' = [translatePromises EXCEPT ![n].status = "written"]
    /\ outputs' = [outputs EXCEPT ![targetLanguages[n]] =
                     translatePromises[n].content]
    /\ UNCHANGED <<mainPc, inputJson, targetLanguages, existingFolders,
                   jsonKeys, inputJsonStrings, translatedTexts, writePromises,
                   faults, jsonVars, pathVars, batchVars, retryVars, fileVars, maskVars, groupVars, replaceVars>>

\* Promise.all(translatePromises) resolves: main returns
MainFlatResolves ==
  /\ mainPc = "awaitTranslations"
  /\ \A n \in 1..Len(translatePromises) :
       translatePromises[n].status \in {"written", "skipped"}
  /\ mainPc' = "resolved"
  /\ UNCHANGED <<inputJson, targetLanguages, existingFolders, jsonKeys,
                 inputJsonStrings, translatePromises, translatedTexts,
                 writePromises, outputs, faults, jsonVars, pathVars,
                 batchVars, retryVars, fileVars, maskVars, groupVars, replaceVars>>

\* Promise.all(translatePromises) rejects with the first rejection: the
\* catch block logs it and main returns
MainFlatCatches ==
  /\ mainPc = "awaitTranslations"
  /\ \E n \in 1..Len(translatePromises) :
       translatePromises[n].status = "rejected"
  /\ mainPc' = "resolved"
  /\ UNCHANGED <<inputJson, targetLanguages, existingFolders, jsonKeys,
                 inputJsonStrings, translatePromises, translatedTexts,
                 writePromises, outputs, faults, jsonVars, pathVars,
                 batchVars, retryVars, fileVars, maskVars, groupVars, replaceVars>>

MainFlatNext ==
  \/ MainFlatStartsTranslations
  \/ FlatProviderReturnsText
  \/ FlatProviderReturnsNoText
  \/ FlatProviderRejects
  \/ FlatMkdirDone
  \/ FlatWriteFileDone
  \/ MainFlatResolves
  \/ MainFlatCatches

SpecMainFlat == MainFlatInit /\ [][MainFlatNext]_vars

(***************************************************************************)
(* Masking a string value and unmasking the result.                        *)
(***************************************************************************)
\* what the strings are made of: braces, a letter, a line break, and parts of
\* the markers
Pieces ==
  {<<"{">>, <<"}">>, <<"{", "{">>, <<"}", "}">>, <<"x">>, <<LineBreak>>,
   <<"<", "k", "e">>, <<"e", "p", ">">>, <<"<", "/">>,
   <<"k", "e", "e", "p", ">">>}

\* the strings of n pieces
RECURSIVE StringsOfPieces(_)
StringsOfPieces(n) ==
  IF n = 0 THEN {<<>>}
  ELSE {piece \o rest : piece \in Pieces, rest \in StringsOfPieces(n - 1)}

MaskValues == UNION {StringsOfPieces(n) : n \in 0..MaxPieces}

MaskInit ==
  /\ maskValue \in MaskValues
  /\ maskedText = <<>>
  /\ unmaskedText = <<>>
  /\ maskPhase = "value"
  /\ JsonIdle
  /\ PathIdle
  /\ BatchIdle
  /\ RetryIdle
  /\ MainIdle
  /\ GroupIdle
  /\ ReplaceIdle

\* replaceParameterStringsInJSONValueWithKeepTags(value)
MaskValue ==
  /\ maskPhase = "value"
  /\ maskedText' = replaceParameterStringsInJSONValueWithKeepTags(maskValue)
  /\ maskPhase' = "masked"
  /\ UNCHANGED <<maskValue, unmaskedText, jsonVars, pathVars, batchVars,
                 retryVars, mainVars, fileVars, groupVars, replaceVars>>

\* removeKeepTagsFromString(masked)
UnmaskText ==
  /\ maskPhase = "masked"
  /\ unmaskedText' = removeKeepTagsFromString(maskedText)
  /\ maskPhase' = "unmasked"
  /\ UNCHANGED <<maskValue, maskedText, jsonVars, pathVars, batchVars,
                 retryVars, mainVars, fileVars, groupVars, replaceVars>>

MaskNext ==
  \/ MaskValue
  \/ UnmaskText

SpecMask == MaskInit /\ [][MaskNext]_vars

(***************************************************************************)
(* groupItemsByLang, one item of the reduce per step.  The accumulator is  *)
(* the list of its entries in insertion order.                             *)
(***************************************************************************)
\* acc[lang] is truthy: the entry has been set, to an array, and an array,
\* the empty one included, is truthy
AccHolds(accumulator, lang) ==
  \E i \in 1..Len(accumulator) : accumulator[i].lang = lang

\* a callback that assigns the item's text in both branches
ReduceStepOverwriting(accumulator, currentItem) ==
  IF AccHolds(accumulator, currentItem.lang)
  THEN [i \in 1..Len(accumulator) |->
          IF accumulator[i].lang = currentItem.lang
          THEN [accumulator[i] EXCEPT !.text = currentItem.text]
          ELSE accumulator[i]]
  ELSE Append(accumulator,
              [lang |-> currentItem.lang, text |-> currentItem.text])

\* the callback of arr.reduce: concat onto the entry of the language, or set
\* the entry to the item's text
ReduceStep(accumulator, currentItem) ==
  IF AccHolds(accumulator, currentItem.lang)
  THEN [i \in 1..Len(accumulator) |->
          IF accumulator[i].lang = currentItem.lang
          THEN [accumulator[i] EXCEPT !.text = @ \o currentItem.text]
          ELSE accumulator[i]]
  ELSE Append(accumulator,
              [lang |-> currentItem.lang, text |-> currentItem.text])

\* the text arrays of the results: none, one, or two translated strings
ResultTexts == {<<>>, <<"a">>, <<"b", "c">>}

\* the { lang, text } results
ResultItems == {[lang |-> l, text |-> t] : l \in Languages, t \in ResultTexts}

GroupInit ==
  /\ arr \in SeqsUpTo(ResultItems, MaxResults)
  /\ acc = <<>>
  /\ groupIndex = 0
  /\ groupPhase = "reduce"
  /\ JsonIdle
  /\ PathIdle
  /\ BatchIdle
  /\ RetryIdle
  /\ MainIdle
  /\ MaskIdle
  /\ ReplaceIdle

TakeItem ==
  /\ groupPhase = "reduce"
  /\ groupIndex < Len(arr)
  /\ acc' = ReduceStep(acc, arr[groupIndex + 1])
  /\ groupIndex' = groupIndex + 1
  /\ UNCHANGED <<arr, groupPhase, jsonVars, pathVars, batchVars, retryVars,
                 mainVars, fileVars, maskVars, replaceVars>>

\* the language has an entry: acc[lang] = acc[lang].concat(currentItem.text)
GroupConcat ==
  /\ groupIndex < Len(arr)
  /\ AccHolds(acc, arr[groupIndex + 1].lang)
  /\ TakeItem

\* the language has no entry yet: acc[lang] = currentItem.text
GroupFirstOfLang ==
  /\ groupIndex < Len(arr)
  /\ ~AccHolds(acc, arr[groupIndex + 1].lang)
  /\ TakeItem

\* return grouped
GroupReturn ==
  /\ groupPhase = "reduce"
  /\ groupIndex = Len(arr)
  /\ groupPhase' = "returned"
  /\ UNCHANGED <<arr, acc, groupIndex, jsonVars, pathVars, batchVars,
                 retryVars, mainVars, fileVars, maskVars, replaceVars>>

GroupNext ==
  \/ GroupConcat
  \/ GroupFirstOfLang
  \/ GroupReturn

SpecGroup == GroupInit /\ [][GroupNext]_vars

(***************************************************************************)
(* replaceAll, one round of its while loop per step.  A string that has    *)
(* grown beyond MaxReplaceLen is not followed any further.                 *)
(***************************************************************************)
ReplaceAlphabet == {"a", "b"}

\* the calls: short strings over two letters, and the call main makes when
\* startTagForNoTranslate is the opening marker itself
ReplaceCalls ==
  {[str |-> s, search |-> f, replacement |-> r] :
     s \in SeqsUpTo(ReplaceAlphabet, MaxReplaceStr),
     f \in SeqsUpTo(ReplaceAlphabet, MaxReplaceSearch),
     r \in SeqsUpTo(ReplaceAlphabet, MaxReplaceSearch)}
  \cup {[str |-> <<"a">> \o KeepOpen, search |-> KeepOpen,
         replacement |-> KeepOpen]}

ReplaceInit ==
  /\ \E c \in ReplaceCalls :
       /\ replaceInput = c.str
       /\ replaceStr = c.str
       /\ replaceSearch = c.search
       /\ replaceReplacement = c.replacement
  /\ replacePhase = "loop"
  /\ replaceRounds = 0
  /\ JsonIdle
  /\ PathIdle
  /\ BatchIdle
  /\ RetryIdle
  /\ MainIdle
  /\ MaskIdle
  /\ GroupIdle

\* str.replace(search, replacement) in the loop
ReplacedOnce == ReplaceFirst(replaceStr, replaceSearch, replaceReplacement)

\* index != -1: str = str.replace(search, replacement); index = ...
ReplaceRound ==
  /\ replacePhase = "loop"
  /\ IndexOf(replaceStr, replaceSearch) # 0
  /\ Len(ReplacedOnce) <= MaxReplaceLen
  /\ replaceStr' = ReplacedOnce
  /\ replaceRounds' = (replaceRounds + 1) % 2
  /\ UNCHANGED <<replaceInput, replaceSearch, replaceReplacement, replacePhase,
                 jsonVars, pathVars, batchVars, retryVars, mainVars, fileVars,
                 maskVars, groupVars>>

\* the same round, for a string that grows beyond MaxReplaceLen
ReplaceOutgrows ==
  /\ replacePhase = "loop"
  /\ IndexOf(replaceStr, replaceSearch) # 0
  /\ Len(ReplacedOnce) > MaxReplaceLen
  /\ replaceStr' = ReplacedOnce
  /\ replaceRounds' = (replaceRounds + 1) % 2
  /\ replacePhase' = "outgrown"
  /\ UNCHANGED <<replaceInput, replaceSearch, replaceReplacement,
                 jsonVars, pathVars, batchVars, retryVars, mainVars, fileVars,
                 maskVars, groupVars>>

\* index == -1: return str
ReplaceReturns ==
  /\ replacePhase = "loop"
  /\ IndexOf(replaceStr, replaceSearch) = 0
  /\ replacePhase' = "returned"
  /\ UNCHANGED <<replaceInput, replaceStr, replaceSearch, replaceReplacement,
                 replaceRounds, jsonVars, pathVars, batchVars, retryVars, mainVars, fileVars,
                 maskVars, groupVars>>

ReplaceNext ==
  \/ ReplaceRound
  \/ ReplaceOutgrows
  \/ ReplaceReturns

SpecReplace == ReplaceInit /\ [][ReplaceNext]_vars

\* the loop runs on for as long as a round is possible
SpecReplaceFair == SpecReplace /\ WF_vars(ReplaceNext)

(***************************************************************************)
(* What a document holds, read off the document itself.                    *)
(***************************************************************************)
\* the string leaves reachable through plain objects, depth first in key
\* order, each with the keys that lead to it
RECURSIVE LeavesFrom(_, _, _)
LeavesFrom(obj, path, i) ==
  IF i > Len(obj.e) THEN <<>>
  ELSE LET here == Append(path, obj.e[i].k)
           val == obj.e[i].v
       IN (IF IsString(val) THEN <<[path |-> here, s |-> val.s]>>
           ELSE IF IsPlainObject(val) THEN LeavesFrom(val, here, 1)
           ELSE <<>>)
          \o LeavesFrom(obj, path, i + 1)

Leaves(obj) == LeavesFrom(obj, <<>>, 1)

\* the value reached from root through own properties named by path
RECURSIVE Follow(_, _)
Follow(root, path) ==
  IF path = <<>> THEN root
  ELSE IF root.t = "object" /\ HasOwn(root, Head(path))
       THEN Follow(Get(root, Head(path)), Tail(path))
       ELSE Undefined

\* every value is a string or a nested object that holds one
RECURSIVE OnlyStringLeaves(_)
OnlyStringLeaves(obj) ==
  \A i \in 1..Len(obj.e) :
    \/ IsString(obj.e[i].v)
    \/ /\ IsPlainObject(obj.e[i].v)
       /\ obj.e[i].v.e # <<>>
       /\ OnlyStringLeaves(obj.e[i].v)

\* all keys of a document, at every depth reached through plain objects
RECURSIVE AllKeys(_)
AllKeys(obj) ==
  UNION {{obj.e[i].k} \cup
         (IF IsPlainObject(obj.e[i].v) THEN AllKeys(obj.e[i].v) ELSE {})
         : i \in 1..Len(obj.e)}

HasChar(str, c) == \E i \in 1..Len(str) : str[i] = c

\* the keys that hold a nested object, at every depth
RECURSIVE NestingKeys(_)
NestingKeys(obj) ==
  UNION {IF IsPlainObject(obj.e[i].v)
         THEN {obj.e[i].k} \cup NestingKeys(obj.e[i].v) ELSE {}
         : i \in 1..Len(obj.e)}

\* no key holds a backslash, and no object sits under the empty key at the
\* top level
PlainPaths(obj) ==
  /\ \A key \in AllKeys(obj) : ~HasChar(key, Backslash)
  /\ \A i \in 1..Len(obj.e) :
       IsPlainObject(obj.e[i].v) => obj.e[i].k # <<>>

\* the same, and no object sits under a key that names an inherited method
PlainKeys(obj) ==
  /\ PlainPaths(obj)
  /\ NestingKeys(obj) \cap InheritedNames = {}

\* no string leaf holds the opening keep marker
NoMarkers(obj) ==
  \A i \in 1..Len(Leaves(obj)) : ~Includes(Leaves(obj)[i].s, KeepOpen)

Flattened == phase \in {"collected", "built"}

DottedLeaves(obj) ==
  {i \in 1..Len(Leaves(obj)) :
     \E j \in 1..Len(Leaves(obj)[i].path) : HasChar(Leaves(obj)[i].path[j], Dot)}

\* leaf i was flattened to one segment per key, each dot written as \. , and
\* rebuilt under exactly its keys
DottedLeafKept(i) ==
  LET leaf == Leaves(json)[i]
  IN /\ Flattened =>
          /\ i <= Len(keys)
          /\ SplitKey(keys[i]) =
               [j \in 1..Len(leaf.path) |-> EscapeKey(leaf.path[j])]
     /\ phase = "built" =>
          Follow(result, leaf.path) = StrV(removeKeepTagsFromString(leaf.s))

C5_OneEntryPerStringLeaf ==
  /\ phase # "threw"
  /\ Len(values) <= Len(Leaves(json))
  /\ \A i \in 1..Len(values) : values[i] = Leaves(json)[i].s
  /\ Flattened => Len(values) = Len(Leaves(json))

ExpectedText(targetLanguage, text) ==
  removeKeepTagsFromString(
    Translation(targetLanguage,
                replaceParameterStringsInJSONValueWithKeepTags(text)))

\* the output for targetLanguage holds, at every flattened key path of the
\* source, the unmasked translation of the source string of the same index
OutputHoldsTranslations(targetLanguage) ==
  LET collected == collectAllStringsFromJson(inputJson)
  IN \A i \in 1..Len(collected.keys) :
       Follow(outputs[targetLanguage], DecodedSegments(collected.keys[i]))
         = StrV(ExpectedText(targetLanguage, collected.values[i]))

\* C2, as stated: for a parsed JSON object and a provider that succeeds on
\* every call, main does not reject, and once it has resolved there is one
\* output per target language that holds, at every flattened key path of the
\* source, the unmasked translation of the source string of the same index.
C2_MainWritesEveryTranslation ==
  (inputJson # NullV /\ faults = 0) =>
    /\ mainPc # "rejected"
    /\ mainPc = "resolved" =>
         \A n \in 1..Len(targetLanguages) :
           /\ outputs[targetLanguages[n]] # Undefined
           /\ OutputHoldsTranslations(targetLanguages[n])

(***************************************************************************)
(* Claims about batching (SpecBatch).                                      *)
(***************************************************************************)
\* the sum of the UTF-8 sizes of the strings of a batch
RECURSIVE BatchBytes(_)
BatchBytes(batch) ==
  IF batch = <<>> THEN 0
  ELSE TextSizeBytes(Head(batch)) + BatchBytes(Tail(batch))

\* the batches one after the other
RECURSIVE Flatten(_)
Flatten(batches) ==
  IF batches = <<>> THEN <<>> ELSE Head(batches) \o Flatten(Tail(batches))

\* the masked input list
Masked == TextsToBeTranslated(sourceStrings)

Oversized(text) == TextSizeBytes(text) > maxTextSizeBytes

\* the position in the input of the first string of batch b
FirstOf(b) == Len(Flatten(SubSeq(promises, 1, b - 1))) + 1

\* C7, as stated: every batch passed to the provider has a total UTF-8 size of
\* at most maxTextSizeBytes, for any list of source strings.
C7_EveryBatchWithinCeiling ==
  \A b \in 1..Len(promises) : BatchBytes(promises[b]) <= maxTextSizeBytes

\* C7, amended: every batch of two or more strings has a total UTF-8 size of
\* at most maxTextSizeBytes, and so has every batch of a list in which no
\* masked string alone is larger than maxTextSizeBytes.
C7_BatchWithinCeilingUnlessAlone ==
  /\ \A b \in 1..Len(promises) :
       Len(promises[b]) >= 2 => BatchBytes(promises[b]) <= maxTextSizeBytes
  /\ (\A i \in 1..Len(Masked) : ~Oversized(Masked[i])) =>
       \A b \in 1..Len(promises) : BatchBytes(promises[b]) <= maxTextSizeBytes

\* a batch of two strings that fills the ceiling to the byte was sent, and
\* another batch after it
C7_Witness ==
  /\ batchPhase = "returned"
  /\ Len(promises) = 2
  /\ Len(promises[1]) = 2
  /\ BatchBytes(promises[1]) = maxTextSizeBytes
  /\ \A i \in 1..Len(Masked) : ~Oversized(Masked[i])

\* C8: the batches, in the order sent, are the masked input list cut into
\* non-empty pieces: during the loop the batches sent so far followed by the
\* running batch are the texts taken so far, at the end the batches are the
\* whole list, and for the empty list nothing is sent.
C8_BatchesPartitionInput ==
  /\ \A b \in 1..Len(promises) : promises[b] # <<>>
  /\ batchPhase = "loop" =>
       Flatten(promises) \o currentBatch = SubSeq(Masked, 1, textIndex)
  /\ batchPhase = "returned" => Flatten(promises) = Masked
  /\ sourceStrings = <<>> => promises = <<>>

\* three strings went out in two batches
C8_Witness ==
  /\ batchPhase = "returned"
  /\ Len(sourceStrings) = 3
  /\ Len(promises) = 2
  /\ Flatten(promises) = Masked

\* C9: at the end every string whose own masked size exceeds the ceiling has
\* gone out, whole, as the only string of the batch at its position, every
\* string has gone out once, and a batch larger than the ceiling has exactly
\* one string.
C9_OversizedStringsAlone ==
  /\ \A b \in 1..Len(promises) :
       BatchBytes(promises[b]) > maxTextSizeBytes => Len(promises[b]) = 1
  /\ batchPhase = "returned" =>
       /\ Len(Flatten(promises)) = Len(Masked)
       /\ \A i \in 1..Len(Masked) :
            Oversized(Masked[i]) =>
              \E b \in 1..Len(promises) :
                FirstOf(b) = i /\ promises[b] = <<Masked[i]>>

\* a string that exceeds the ceiling only once masked went out between two
\* other batches
C9_Witness ==
  /\ batchPhase = "returned"
  /\ Len(promises) = 3
  /\ Oversized(Masked[2])
  /\ ~Oversized(sourceStrings[2])
  /\ promises[2] = <<Masked[2]>>


(***************************************************************************)
(* Claims about the retry loop (SpecRetry).                                *)
(***************************************************************************)
\* the answers so far, but for the last one, were all rate-limit errors
RateLimitedUntilLast ==
  \A i \in 1..(Len(call.answers) - 1) :
    ~call.answers[i].ok /\ IsRateLimit(call.answers[i])

\* C10: the wait before the k-th retry is baseDelay * 2^(k-1); and with the
\* defaults a call that succeeds after n rate-limited answers has called the
\* provider n + 1 times, n <= 5, has waited 1000, 2000, 4000, ... in that
\* order, and returns the provider's result.
C10_BackoffSchedule ==
  /\ \A k \in 1..Len(call.waits) :
       call.waits[k] = call.baseDelay * Pow2(k - 1)
  /\ (/\ call.status = "success"
      /\ call.maxRetries = DefaultMaxRetries
      /\ call.baseDelay = DefaultBaseDelay)
     => LET n == Len(call.answers) - 1
        IN /\ RateLimitedUntilLast
           /\ n <= 5
           /\ call.calls = n + 1
           /\ call.waits = SubSeq(<<1000, 2000, 4000, 8000, 16000>>, 1, n)
           /\ call.result = TranslateText(call.batch, call.targetLanguage)

\* with the defaults, five rate-limited answers and then a success
C10_Witness ==
  /\ call.status = "success"
  /\ call.maxRetries = DefaultMaxRetries
  /\ call.baseDelay = DefaultBaseDelay
  /\ call.calls = 6
  /\ call.waits = <<1000, 2000, 4000, 8000, 16000>>

\* the last answer of the call
LastAnswer == call.answers[Len(call.answers)]

IsFatal(answer) == ~answer.ok /\ ~IsRateLimit(answer)

\* C11: an error that is not a rate-limit signal, on the first attempt or
\* after rate-limited ones, ends the call at once with that same error: it is
\* the last answer the call ever hears, no wait follows it and no provider
\* call follows it.
C11_FatalErrorPropagatesAtOnce ==
  /\ \A i \in 1..(Len(call.answers) - 1) : ~IsFatal(call.answers[i])
  /\ (call.answers # <<>> /\ IsFatal(LastAnswer)) =>
       /\ call.status = "failed"
       /\ call.error = LastAnswer
       /\ call.calls = Len(call.answers)
       /\ Len(call.waits) = Len(call.answers) - 1

\* a fatal error after two rate-limited attempts
C11_Witness ==
  /\ Len(call.answers) = 3
  /\ IsFatal(LastAnswer)
  /\ call.status = "failed"
  /\ call.calls = 3
  /\ Len(call.waits) = 2

Terminal == call.status \in {"success", "failed"}

\* the provider is never called more than maxRetries + 1 times, and a call
\* whose attempts were all rate-limited has failed with the error of the last
\* one, after maxRetries waits
RetryBound ==
  /\ call.calls <= call.maxRetries + 1
  /\ call.maxRetries = DefaultMaxRetries => call.calls <= 6
  /\ (/\ Len(call.answers) = call.maxRetries + 1
      /\ \A i \in 1..Len(call.answers) :
           ~call.answers[i].ok /\ IsRateLimit(call.answers[i]))
     => /\ call.status = "failed"
        /\ call.error = LastAnswer
        /\ Len(call.waits) = call.maxRetries

\* C12: at most maxRetries + 1 provider calls (6 with the defaults); when
\* every attempt is rate-limited the call fails with the error of the last
\* attempt without waiting after it; and when the provider answers every
\* attempt the call ends in success or failure.
C12_RetryBound == []RetryBound /\ <>Terminal

\* with the defaults, six rate-limited attempts and the failure
C12_Witness ==
  /\ call.maxRetries = DefaultMaxRetries
  /\ call.calls = 6
  /\ Len(call.answers) = 6
  /\ \A i \in 1..6 : IsRateLimit(call.answers[i])
  /\ call.status = "failed"
  /\ call.error = LastAnswer
  /\ Len(call.waits) = 5

(***************************************************************************)
(* Claims about the languages of one run of main (SpecMainJson).           *)
(***************************************************************************)
\* the calls of main for one language, in the order they were issued
CallsOf(targetLanguage) ==
  SelectSeq(translatePromises, LAMBDA c : c.targetLanguage = targetLanguage)

\* the batches those calls were given
BatchesOf(targetLanguage) ==
  [b \in 1..Len(CallsOf(targetLanguage)) |-> CallsOf(targetLanguage)[b].batch]

\* their results one after the other, in batch-index order
ResultsOf(targetLanguage) ==
  Flatten([b \in 1..Len(CallsOf(targetLanguage)) |->
             CallsOf(targetLanguage)[b].result])

\* C13, as stated: the calls of a language are issued in batch-index order,
\* and the list of translated strings main goes on with for that language is
\* the concatenation of its batch results in batch-index order, whatever
\* order the calls completed in.
C13_WithinLanguageOrdering ==
  \A n \in 1..Len(targetLanguages) :
    /\ translatePromises # <<>> =>
         BatchesOf(targetLanguages[n]) = translateStrings(inputJsonStrings)
    /\ (translatedTexts # Undefined /\ inputJsonStrings # <<>>) =>
         ResultAt(translatedTexts, n - 1)
           = StringArray(ResultsOf(targetLanguages[n]))

\* a provider call of the language ended in failure
LanguageFailed(targetLanguage) ==
  \E b \in 1..Len(CallsOf(targetLanguage)) :
    CallsOf(targetLanguage)[b].status = "failed"

\* every provider call of the language succeeded
LanguageSucceeded(targetLanguage) ==
  \A b \in 1..Len(CallsOf(targetLanguage)) :
    CallsOf(targetLanguage)[b].status = "success"

\* main has returned or thrown
MainEnded == mainPc \in {"resolved", "rejected"}

\* nothing is left to happen: main has ended, every call has ended and no
\* mkdir or writeFile is pending
MainJsonQuiet ==
  /\ MainEnded
  /\ \A p \in 1..Len(translatePromises) :
       translatePromises[p].status \in {"success", "failed"}
  /\ \A n \in 1..Len(writePromises) :
       writePromises[n].status \in {"written", "rejected"}

\* C14, as stated: when the calls of one language fail, every other language
\* whose own calls all succeed still has its output written by the time
\* nothing is left to happen.
C14_FailureIsolatedToLanguage ==
  (MainJsonQuiet /\ \E m \in 1..Len(targetLanguages) :
                      LanguageFailed(targetLanguages[m])) =>
    \A n \in 1..Len(targetLanguages) :
      LanguageSucceeded(targetLanguages[n]) =>
        outputs[targetLanguages[n]] # Undefined

\* C16, as stated, for a .json input: every language's calls are started
\* before main awaits any of them, and once main has returned or thrown no
\* provider call, retry wait or file write is in flight.
C16_JoinAll ==
  /\ mainPc = "awaitTranslations" =>
       \A n \in 1..Len(targetLanguages) :
         BatchesOf(targetLanguages[n]) = translateStrings(inputJsonStrings)
  /\ MainEnded =>
       /\ \A p \in 1..Len(translatePromises) :
            translatePromises[p].status \in {"success", "failed"}
       /\ \A n \in 1..Len(writePromises) :
            writePromises[n].status \in {"written", "rejected"}

\* the file cannot be read, or its text is not JSON
InputUnusable == ~inputFile.readable \/ ~inputFile.content.wellFormed

\* C19: when the input file cannot be read or does not hold JSON, main parses
\* once, calls the provider for nothing, writes nothing and returns.
C19_ParseErrorAborts ==
  InputUnusable =>
    /\ translatePromises = <<>>
    /\ writePromises = <<>>
    /\ \A lang \in Languages : outputs[lang] = Undefined
    /\ parses <= 1
    /\ mainPc \in {"readFile", "resolved"}
    /\ mainPc = "resolved" <=> parses = 1

\* main has returned from a readable file whose text is not JSON
C19_Witness ==
  /\ inputFile.readable
  /\ inputFile.content = MalformedText
  /\ parses = 1
  /\ mainPc = "resolved"
  /\ translatePromises = <<>>

(***************************************************************************)
(* Claims about main on an HTML-like input (SpecMainFlat).                 *)
(***************************************************************************)
\* the task of the language at position n
FlatTask(n) == translatePromises[n]

\* C15, as stated, for an HTML-like input: once a provider call has ended in
\* failure main does not complete as a success.
C15_FailureReachesCaller ==
  (\E n \in 1..Len(translatePromises) : FlatTask(n).status = "rejected") =>
    mainPc # "resolved"

\* a text without any opening or closing keep marker
StripKeepMarkers(str) ==
  replaceAll(replaceAll(str, KeepOpen, <<>>), KeepClose, <<>>)

\* C17, as stated: every language gets one task, whose single provider call
\* is given the whole masked text; what is written for a language is the
\* returned text without any keep marker; and main resolves when the
\* provider never fails.
C17_FlatDocumentMode ==
  /\ mainPc # "readFile" => Len(translatePromises) = Len(targetLanguages)
  /\ \A n \in 1..Len(translatePromises) :
       /\ FlatTask(n).targetLang = targetLanguages[n]
       /\ FlatTask(n).calls = 1
       /\ FlatTask(n).text =
            TextWithNoTranslateTagsReplaced(inputFile.content, noTranslateTags)
       /\ FlatTask(n).status = "written" =>
            outputs[targetLanguages[n]] =
              StrV(StripKeepMarkers(FlatTask(n).translatedText.s))
  /\ (MainEnded /\ faults = 0) => mainPc = "resolved"

\* main has ended and no task has anything left to do
MainFlatQuiet ==
  /\ MainEnded
  /\ \A n \in 1..Len(translatePromises) :
       FlatTask(n).status \in {"written", "skipped", "rejected"}

\* C18: a language for which the provider returned no text is skipped: no
\* output is written for it and its task does not fail, so that main
\* resolves when no call is rejected; and by the time nothing is left to
\* happen every language for which the provider returned a text has its
\* output written.
C18_UndefinedTranslationSkipped ==
  /\ \A n \in 1..Len(translatePromises) :
       FlatTask(n).answer = "noText" =>
         /\ FlatTask(n).status = "skipped"
         /\ outputs[targetLanguages[n]] = Undefined
  /\ (MainEnded /\ faults = 0) => mainPc = "resolved"
  /\ MainFlatQuiet =>
       \A n \in 1..Len(translatePromises) :
         FlatTask(n).answer = "text" =>
           /\ FlatTask(n).status = "written"
           /\ outputs[targetLanguages[n]] = FlatTask(n).content

\* no text for the first language; the second one was written after its
\* folder was made, and main has resolved
C18_Witness ==
  /\ mainPc = "resolved"
  /\ Len(translatePromises) = 2
  /\ FlatTask(1).answer = "noText"
  /\ outputs[targetLanguages[1]] = Undefined
  /\ FlatTask(2).answer = "text"
  /\ FlatTask(2).status = "written"
  /\ outputs[targetLanguages[2]] # Undefined
  /\ faults = 0

(***************************************************************************)
(* Claims about masking (SpecMask).                                        *)
(***************************************************************************)
\* the string holds neither '<keep>' nor '</keep>'
NoKeepMarkers(str) == ~Includes(str, KeepOpen) /\ ~Includes(str, KeepClose)

\* C20: unmasking the masked form of a string that holds neither marker
\* gives the string back.
C20_MaskingRoundTrip ==
  (maskPhase = "unmasked" /\ NoKeepMarkers(maskValue)) =>
    unmaskedText = maskValue

\* a string with parts of a marker around a placeholder went through both
\* steps
C20_Witness ==
  /\ maskPhase = "unmasked"
  /\ maskValue = <<"<", "k", "e", "{", "}", "e", "p", ">">>
  /\ maskedText # maskValue
  /\ unmaskedText = maskValue

\* where the placeholder that begins at position i of x ends, 0 when none
\* begins there: at the first }} after an opening {{, else at the first }
\* after the opening { ; a placeholder may run across a line break or not
PlaceholderEnd(x, i, acrossLines) ==
  LET ok(k) == acrossLines \/ \A j \in i..k : x[j] # LineBreak
      doubles == {k \in (i + 3)..Len(x) :
                    x[i + 1] = "{" /\ x[k - 1] = "}" /\ x[k] = "}" /\ ok(k)}
      singles == {k \in (i + 1)..Len(x) : x[k] = "}" /\ ok(k)}
      least(S) == CHOOSE k \in S : \A h \in S : k <= h
  IN IF x[i] # "{" THEN 0
     ELSE IF doubles # {} THEN least(doubles)
     ELSE IF singles # {} THEN least(singles)
     ELSE 0

\* x from position i on, with every placeholder, found from left to right, in
\* one pair of markers and everything else as it is
RECURSIVE Wrapped(_, _, _)
Wrapped(x, i, acrossLines) ==
  IF i > Len(x) THEN <<>>
  ELSE LET j == PlaceholderEnd(x, i, acrossLines)
       IN IF j = 0 THEN <<x[i]>> \o Wrapped(x, i + 1, acrossLines)
          ELSE KeepOpen \o SubSeq(x, i, j) \o KeepClose
               \o Wrapped(x, j + 1, acrossLines)

\* no { of the string has a } after it
NoPlaceholder(x) ==
  \A i \in 1..Len(x) : \A k \in (i + 1)..Len(x) : ~(x[i] = "{" /\ x[k] = "}")

\* C21, as stated: every {...} and {{...}} placeholder of the input, the
\* empty ones included, is wrapped in one pair of markers, a {{...}} one as a
\* whole, everything outside the placeholders is unchanged, and a string with
\* no placeholder is returned unchanged.
C21_EveryPlaceholderWrapped ==
  maskPhase \in {"masked", "unmasked"} =>
    /\ maskedText = Wrapped(maskValue, 1, TRUE)
    /\ NoPlaceholder(maskValue) => maskedText = maskValue

\* C21, amended: the same for the placeholders that hold no line break; a
\* brace-delimited run with a line break in it is left unwrapped.
C21_PlaceholdersOnOneLineWrapped ==
  maskPhase \in {"masked", "unmasked"} =>
    /\ maskedText = Wrapped(maskValue, 1, FALSE)
    /\ NoPlaceholder(maskValue) => maskedText = maskValue

\* an empty double-brace placeholder and an empty single-brace one
C21_Witness ==
  /\ maskPhase = "masked"
  /\ maskValue = <<"{", "{", "}", "}", "{", "}">>
  /\ maskedText = KeepOpen \o <<"{", "{", "}", "}">> \o KeepClose
                    \o KeepOpen \o <<"{", "}">> \o KeepClose

\* str from position i on without the characters of its opening and closing
\* markers, every other character in place
RECURSIVE WithoutMarkers(_, _)
WithoutMarkers(str, i) ==
  IF i > Len(str) THEN <<>>
  ELSE IF MatchesAt(str, KeepOpen, i)
       THEN WithoutMarkers(str, i + Len(KeepOpen))
  ELSE IF MatchesAt(str, KeepClose, i)
       THEN WithoutMarkers(str, i + Len(KeepClose))
  ELSE <<str[i]>> \o WithoutMarkers(str, i + 1)

\* C22, as stated: the unmasked text is the input without its opening and
\* closing markers, every other character in place, and an input with no
\* marker is returned unchanged.
C22_AllMarkersRemoved ==
  maskPhase = "unmasked" =>
    /\ unmaskedText = WithoutMarkers(maskedText, 1)
    /\ NoKeepMarkers(maskedText) => unmaskedText = maskedText

(***************************************************************************)
(* The fewest batches (SpecBatch).                                         *)
(***************************************************************************)
\* the ways to cut a list of n strings: the positions after which a group ends
CutSets(n) == IF n <= 1 THEN {{}} ELSE SUBSET (1..(n - 1))

\* the groups of texts that the cuts make lie all within the ceiling
CutsWithinCeiling(texts, cuts) ==
  \A a \in 1..Len(texts) : \A z \in a..Len(texts) :
    (/\ a = 1 \/ (a - 1) \in cuts
     /\ z = Len(texts) \/ z \in cuts
     /\ \A c \in cuts : ~(a <= c /\ c < z))
    => BatchBytes(SubSeq(texts, a, z)) <= maxTextSizeBytes

\* the least number of consecutive groups within the ceiling that texts can
\* be cut into
MinBatches(texts) ==
  IF texts = <<>> THEN 0
  ELSE LET counts == {Cardinality(cuts) + 1 :
                        cuts \in {c \in CutSets(Len(texts)) :
                                    CutsWithinCeiling(texts, c)}}
       IN CHOOSE n \in counts : \A m \in counts : n <= m

\* C23: for a list in which no masked string alone exceeds the ceiling the
\* number of batches sent is the least number of consecutive groups within
\* the ceiling; and a batch that was closed is non-empty and could not have
\* taken the string that came after it.
C23_FewestBatches ==
  /\ (batchPhase = "returned" /\ \A i \in 1..Len(Masked) : ~Oversized(Masked[i]))
       => Len(promises) = MinBatches(Masked)
  /\ \A b \in 1..Len(promises) :
       FirstOf(b + 1) <= (IF batchPhase = "loop" THEN textIndex ELSE Len(Masked))
         => /\ promises[b] # <<>>
            /\ BatchBytes(promises[b]) + TextSizeBytes(Masked[FirstOf(b + 1)])
                 > maxTextSizeBytes

\* two strings filled a batch to the byte and the third one started the
\* second batch
C23_Witness ==
  /\ batchPhase = "returned"
  /\ sourceStrings = <<<<NearRun>>, <<"{", "é", "}">>, <<"x">>>>
  /\ Len(promises) = 2
  /\ MinBatches(Masked) = 2

(***************************************************************************)
(* Retry waits are local (SpecMainJson).                                   *)
(***************************************************************************)
\* the 429 answer of the provider
TooManyRequests == [ok |-> FALSE, tooManyRequests |-> TRUE, status |-> 429]

\* a step that leaves call p as it is
Untouched(p) == translatePromises'[p] = translatePromises[p]

\* C24: while a call waits out its backoff delay, every other call, of the
\* same language or another, goes on: one in flight can complete, and, as
\* long as the provider still errs, can fail into its own wait; one that
\* waits can have its timer fire and call the provider again; and none of
\* these steps touches the waiting call.
C24_RetryWaitsAreLocal ==
  \A p, q \in 1..Len(translatePromises) :
    (p # q /\ translatePromises[p].status = "waiting") =>
      /\ translatePromises[q].status = "attempting" =>
           /\ ENABLED (/\ ProviderAnswers(q, Success)
                       /\ translatePromises'[q].status = "success"
                       /\ Untouched(p))
           /\ faults < MaxFaults =>
                ENABLED (/\ ProviderAnswers(q, TooManyRequests)
                         /\ translatePromises'[q].status = "waiting"
                         /\ Untouched(p))
      /\ translatePromises[q].status = "waiting" =>
           ENABLED (/\ TimerFiresFor(q)
                    /\ translatePromises'[q].status = "attempting"
                    /\ translatePromises'[q].calls
                         = translatePromises[q].calls + 1
                    /\ Untouched(p))

\* one call waits after its first 429 while a call of another language,
\* itself retried once, has completed
C24_Witness ==
  \E p, q \in 1..Len(translatePromises) :
    /\ translatePromises[p].status = "waiting"
    /\ translatePromises[p].answers = <<TooManyRequests>>
    /\ translatePromises[q].targetLanguage # translatePromises[p].targetLanguage
    /\ translatePromises[q].status = "success"
    /\ translatePromises[q].answers = <<TooManyRequests, Success>>

(***************************************************************************)
(* Claims about groupItemsByLang (SpecGroup).                              *)
(***************************************************************************)
\* the items of a language, in input order
ItemsOf(lang) == SelectSeq(arr, LAMBDA item : item.lang = lang)

\* their text arrays one after the other
TextsOf(lang) ==
  Flatten([i \in 1..Len(ItemsOf(lang)) |-> ItemsOf(lang)[i].text])

\* C25: the record returned has exactly one entry for every language that
\* occurs in the input and none for any other; the entry of a language is the
\* concatenation of the text arrays of its items in input order; and the
\* empty list gives the empty record.
C25_GroupedByLanguage ==
  groupPhase = "returned" =>
    /\ \A i, j \in 1..Len(acc) : acc[i].lang = acc[j].lang => i = j
    /\ {acc[i].lang : i \in 1..Len(acc)} = {arr[i].lang : i \in 1..Len(arr)}
    /\ \A i \in 1..Len(acc) : acc[i].text = TextsOf(acc[i].lang)
    /\ arr = <<>> => acc = <<>>

\* two results of one language around a result of the other
C25_Witness ==
  /\ groupPhase = "returned"
  /\ arr = <<[lang |-> "de", text |-> <<"a">>],
             [lang |-> "fr", text |-> <<"b", "c">>],
             [lang |-> "de", text |-> <<"b", "c">>]>>
  /\ acc = <<[lang |-> "de", text |-> <<"a", "b", "c">>],
             [lang |-> "fr", text |-> <<"b", "c">>]>>

(***************************************************************************)
(* Claims about replaceAll (SpecReplaceFair).                              *)
(***************************************************************************)
\* C26, as stated: every call of replaceAll returns, also when the
\* replacement contains the search string and when the search string is
\* empty; what it returns holds no occurrence of the search string; and when
\* the search string does not occur in str, str is returned unchanged.  (A
\* run whose string has outgrown MaxReplaceLen is not held against it.)
C26_ReplaceAllTerminates ==
  /\ <>(replacePhase \in {"returned", "outgrown"})
  /\ [](replacePhase = "returned" =>
          /\ ~Includes(replaceStr, replaceSearch)
          /\ ~Includes(replaceInput, replaceSearch) => replaceStr = replaceInput)

=============================================================================
